---- MODULE Spec2Model ----
(***************************************************************************)
(* Model of the stabilizer back end of stabmbqc-game:                      *)
(*   - backend/stim_stub.py        PauliString, Tableau, Circuit           *)
(*   - backend/pauli_handling.py   sparse notation, GF(2) span, classifier *)
(*   - backend/clifford_from_map.py frame completion, tableau synthesis    *)
(*                                                                         *)
(* A PauliString is modelled by its list of opcodes (0=I, 1=X, 2=Y, 3=Z),  *)
(* 1-based here where the code is 0-based (qubit q is position q+1).  The  *)
(* sign of a PauliString is never read by the code modelled in this file   *)
(* (PauliString.__eq__, commutes and _to_symp use the opcodes only).       *)
(* A sparse Pauli string such as "Z1 X3" is the sequence of its tokens,    *)
(* << <<"Z",1>>, <<"X",3>> >>; qubit indices in tokens, target_qubits,     *)
(* circuits and results are the code's 0-based indices.                    *)
(***************************************************************************)
EXTENDS Integers, Sequences, FiniteSets, TLC

\* ------------------------------------------------------------------ bounds
NumQubits == 2
MaxPairs == 2
MaxWeightSearch == 2
ClsQubits == 2
MaxGens == 2
CanQubits == 3
MaxStabs == 2
WideQubits == 3
FullStabs == 3
MaxTokens == 3
PauliLen == 3
MaxRows == 3
MaxCols == 3
BuildQubits == 3
CzQubits == 3
MaxCzGens == 2
MaxCzGates == 2
MaxBuild == 2

\* --------------------------------------------------------------- variables
VARIABLES
    syn_in,      \* arguments of the synthesize_clifford_from_sd_pairs call
    syn_pc,      \* position of the call
    S,           \* parsed stabilizers S[i]
    D,           \* parsed destabilizers D[i]
    target_qubits, \* resolved target_qubits (defaults to range(m))
    X_img,       \* frame X-images, None or a PauliString per qubit
    Z_img,       \* frame Z-images
    q_loop,      \* loop variable q of _complete_symplectic_frame (0-based)
    searched,    \* number of qubits for which candidates were enumerated
    syn_out,     \* returned dict, or the exception raised
    cls_in,      \* arguments of the is_logical_pauli_sparse call
    cls_pc,      \* position of the call
    n_inferred,  \* n of is_logical_pauli_sparse
    p_cand,      \* parsed candidate
    gens,        \* parsed generators
    anticommuting_indices, \* indices collected by the commutation check
    cls_out,     \* returned (status, details), or the exception raised
    can_in,      \* arguments of the canonicalize_stabilizer_code call
    can_pc,      \* position of the call
    n_can,       \* n of canonicalize_stabilizer_code
    stab_stim,   \* parsed stabilizers
    destab_vecs, \* destab_x[i] + destab_z[i] of the destabilizers found so far
    destab_stim, \* destabilizers as PauliStrings
    logical_x_stim, \* logical X operators
    logical_z_stim, \* logical Z operators
    current_stabs,  \* working copy of the stabilizers in the circuit builder
    current_destabs, \* working copy of the destabilizers
    circuit,     \* operations appended so far
    i_loop,      \* loop variable i of the destabilizer search, then of the builder
    can_out,     \* returned dict, or the exception raised
    fn_in,       \* arguments of a call of one of the helper functions
    fn_pc,       \* position of the call
    fn_args,     \* the caller's argument objects (lists are passed by reference)
    fn_out       \* returned value, or the exception raised

syn_vars == <<syn_in, syn_pc, S, D, target_qubits, X_img, Z_img, q_loop, searched, syn_out>>

cls_vars == <<cls_in, cls_pc, n_inferred, p_cand, gens, anticommuting_indices, cls_out>>

can_vars == <<can_in, can_pc, n_can, stab_stim, destab_vecs, destab_stim, logical_x_stim,
              logical_z_stim, current_stabs, current_destabs, circuit, i_loop, can_out>>

fn_vars == <<fn_in, fn_pc, fn_args, fn_out>>

vars == <<syn_vars, cls_vars, can_vars, fn_vars>>

None == "None"

\* ------------------------------------------------------- generic utilities
Min(s) == CHOOSE x \in s : \A y \in s : x <= y

Max(s) == CHOOSE x \in s : \A y \in s : x >= y

RECURSIVE Pow(_, _)
Pow(b, e) == IF e = 0 THEN 1 ELSE b * Pow(b, e - 1)

RECURSIVE Concat(_)
Concat(ss) == IF ss = <<>> THEN <<>> ELSE Head(ss) \o Concat(Tail(ss))

Zeros(k) == [i \in 1..k |-> 0]

\* row XOR:  [(a ^ b) for a, b in zip(r, s)]
XorRow(r, s) == [i \in 1..Min({Len(r), Len(s)}) |-> (r[i] + s[i]) % 2]

\* ------------------------------------------------------------ stim_stub.py
\* PauliString(n): the identity on n qubits
PauliString(n) == [i \in 1..n |-> 0]

\* PauliString._to_symp(n): x ++ z
ToSymp(p, n) ==
    [i \in 1..(2 * n) |->
        IF i <= n
        THEN (IF i <= Len(p) /\ p[i] \in {1, 2} THEN 1 ELSE 0)
        ELSE (IF i - n <= Len(p) /\ p[i - n] \in {3, 2} THEN 1 ELSE 0)]

\* The sum with the x1*z2 terms only
RECURSIVE SympSumOneSided(_, _, _)
SympSumOneSided(v1, v2, n) ==
    IF n = 0 THEN 0
    ELSE (SympSumOneSided(v1, v2, n - 1) + v1[n] * v2[Len(v2) \div 2 + n]) % 2

RECURSIVE SympSum(_, _, _)
SympSum(v1, v2, n) ==
    IF n = 0 THEN 0
    ELSE (SympSum(v1, v2, n - 1) + v1[n] * v2[Len(v2) \div 2 + n]
            + v1[Len(v1) \div 2 + n] * v2[n]) % 2

\* _symplectic_inner(v1, v2)
SymplecticInner(v1, v2) == SympSum(v1, v2, Len(v1) \div 2)

\* PauliString.commutes(other)
Commutes(a, b) ==
    LET n == Max({Len(a), Len(b)})
    IN SymplecticInner(ToSymp(a, n), ToSymp(b, n)) = 0

\* _vec_to_pauli(v) (and _symp_to_pauli(v, n) of clifford_from_map.py)
VecToPauli(v) ==
    LET n == Len(v) \div 2
    IN [i \in 1..n |->
          IF v[i] = 1 /\ v[n + i] = 1 THEN 2
          ELSE IF v[i] = 1 THEN 1
          ELSE IF v[n + i] = 1 THEN 3
          ELSE 0]

SwapRows(M, a, b) ==
    [r \in 1..Len(M) |-> IF r = a THEN M[b] ELSE IF r = b THEN M[a] ELSE M[r]]

IdentityMatrix(m) == [i \in 1..m |-> [j \in 1..m |-> IF i = j THEN 1 ELSE 0]]

\* The elimination loop of _gf2_inv(mat) on the augmented matrix [mat | I]:
\* full reduction (rows above and below the pivot are cleared).
RECURSIVE GF2InvLoop(_, _, _, _)
GF2InvLoop(aug, n, col, row) ==
    IF col > n THEN aug
    ELSE LET cands == {r \in row..n : aug[r][col] = 1}
         IN IF cands = {} THEN GF2InvLoop(aug, n, col + 1, row)
            ELSE LET a1 == SwapRows(aug, row, Min(cands))
                     a2 == [r \in 1..n |->
                              IF r # row /\ a1[r][col] = 1
                              THEN XorRow(a1[r], a1[row]) ELSE a1[r]]
                 IN GF2InvLoop(a2, n, col + 1, row + 1)

\* _gf2_inv(mat): [ok |-> FALSE] stands for ValueError("Matrix not invertible")
GF2Inv(mat) ==
    LET n == Len(mat)
        aug0 == [i \in 1..n |-> mat[i] \o IdentityMatrix(n)[i]]
        aug == GF2InvLoop(aug0, n, 1, 1)
        bad == \E i \in 1..n :
                  aug[i][i] # 1 \/ \E j \in 1..n : j # i /\ aug[i][j] # 0
    IN IF bad THEN [ok |-> FALSE, inv |-> <<>>]
       ELSE [ok |-> TRUE, inv |-> [i \in 1..n |-> SubSeq(aug[i], n + 1, 2 * n)]]

\* Tableau._matrix(): rows of xs then rows of zs
TableauMatrix(T) ==
    LET n == Len(T.xs)
    IN [i \in 1..(2 * n) |->
          IF i <= n THEN ToSymp(T.xs[i], n) ELSE ToSymp(T.zs[i - n], n)]

RECURSIVE XorSelected(_, _, _)
XorSelected(M, v, j) ==
    IF j = 0 THEN Zeros(Len(v))
    ELSE IF v[j] = 1 THEN XorRow(XorSelected(M, v, j - 1), M[j])
    ELSE XorSelected(M, v, j - 1)

\* Tableau.__call__(p): conjugate p by the tableau
TableauCall(T, p) ==
    LET n == Len(T.xs)
        v == ToSymp(p, n)
    IN VecToPauli(XorSelected(TableauMatrix(T), v, 2 * n))

\* Tableau.inverse() that returns the tableau as it is
TableauInverseNotInverted(T) == [ok |-> TRUE, xs |-> T.xs, zs |-> T.zs]

\* Tableau.inverse() that takes xs from the last n rows of the inverse and
\* zs from the first n
TableauInverseHalvesSwapped(T) ==
    LET n == Len(T.xs)
        r == GF2Inv(TableauMatrix(T))
    IN IF ~r.ok THEN [ok |-> FALSE, xs |-> <<>>, zs |-> <<>>]
       ELSE [ok |-> TRUE,
             xs |-> [i \in 1..n |-> VecToPauli(r.inv[n + i])],
             zs |-> [i \in 1..n |-> VecToPauli(r.inv[i])]]

\* Tableau.inverse()
TableauInverse(T) ==
    LET n == Len(T.xs)
        r == GF2Inv(TableauMatrix(T))
    IN IF ~r.ok THEN [ok |-> FALSE, xs |-> <<>>, zs |-> <<>>]
       ELSE [ok |-> TRUE,
             xs |-> [i \in 1..n |-> VecToPauli(r.inv[i])],
             zs |-> [i \in 1..n |-> VecToPauli(r.inv[n + i])]]

\* Tableau.to_circuit() of the stub
TableauToCircuit(T) ==
    Concat([i \in 1..Len(T.xs) |-> << <<"X_OUTPUT", i - 1>>, <<"Z_OUTPUT", i - 1>> >>])

\* ------------------------------------------------------ pauli_handling.py
OpChar(op) == IF op = 1 THEN "X" ELSE IF op = 2 THEN "Y" ELSE IF op = 3 THEN "Z" ELSE "I"

CharOp(c) == IF c = "X" THEN 1 ELSE IF c = "Y" THEN 2 ELSE IF c = "Z" THEN 3 ELSE 0

RECURSIVE SparseFrom(_, _)
SparseFrom(p, q) ==
    IF q > Len(p) THEN <<>>
    ELSE (IF p[q] \in {1, 2, 3} THEN << <<OpChar(p[q]), q - 1>> >> ELSE <<>>)
            \o SparseFrom(p, q + 1)

\* paulistring_to_sparse(p)
PaulistringToSparse(p) == SparseFrom(p, 1)

\* _parse_tokens that lets a later token overwrite an earlier one on the
\* same index
RECURSIVE ParseTokensFromLastWins(_, _, _)
ParseTokensFromLastWins(spec, k, tokens) ==
    IF k > Len(spec) THEN [err |-> None, tokens |-> tokens]
    ELSE LET op == spec[k][1]
             idx == spec[k][2]
         IN IF op \notin {"X", "Y", "Z"} THEN [err |-> "ValueError", tokens |-> tokens]
            ELSE IF idx \notin Nat THEN [err |-> "ValueError", tokens |-> tokens]
            ELSE ParseTokensFromLastWins(spec, k + 1,
                    [i \in (DOMAIN tokens) \cup {idx} |-> IF i = idx THEN op ELSE tokens[i]])

\* _parse_tokens(pauli_spec): the dict idx -> op, or ValueError
RECURSIVE ParseTokensFrom(_, _, _)
ParseTokensFrom(spec, k, tokens) ==
    IF k > Len(spec) THEN [err |-> None, tokens |-> tokens]
    ELSE LET op == spec[k][1]
             idx == spec[k][2]
         IN IF op \notin {"X", "Y", "Z"} THEN [err |-> "ValueError", tokens |-> tokens]
            ELSE IF idx \notin Nat THEN [err |-> "ValueError", tokens |-> tokens]
            ELSE IF idx \in DOMAIN tokens /\ tokens[idx] # op
                 THEN [err |-> "ValueError", tokens |-> tokens]
            ELSE ParseTokensFrom(spec, k + 1,
                    [i \in (DOMAIN tokens) \cup {idx} |-> IF i = idx THEN op ELSE tokens[i]])

ParseTokens(spec) == ParseTokensFrom(spec, 1, [i \in {} |-> "I"])

\* parse_sparse_pauli(pauli_spec, num_qubits) with num_qubits given
ParseSparsePauli(spec, n) ==
    LET t == ParseTokens(spec)
        max_idx == IF DOMAIN t.tokens = {} THEN -1 ELSE Max(DOMAIN t.tokens)
    IN IF t.err # None THEN [err |-> "ValueError", p |-> <<>>]
       ELSE IF n <= max_idx THEN [err |-> "ValueError", p |-> <<>>]
       ELSE IF n < 0 THEN [err |-> "ValueError", p |-> <<>>]
       ELSE [err |-> None,
             p |-> [i \in 1..n |->
                      IF (i - 1) \in DOMAIN t.tokens THEN CharOp(t.tokens[i - 1]) ELSE 0]]

\* stim_to_symplectic(p, n) returned as x + z (_symp_vec of clifford_from_map.py)
SympVec(p, n) ==
    [i \in 1..(2 * n) |->
        IF i <= n THEN (IF p[i] \in {1, 2} THEN 1 ELSE 0)
        ELSE (IF p[i - n] \in {3, 2} THEN 1 ELSE 0)]

\* The elimination loop that looks for a pivot in row pivot_row only
RECURSIVE RowspanEliminateNoPivotSearch(_, _, _, _, _, _, _)
RowspanEliminateNoPivotSearch(Sm, comb, m, d, col, pivot_row, pivots) ==
    IF col > d \/ pivot_row > m THEN [S |-> Sm, comb |-> comb, pivots |-> pivots]
    ELSE IF Sm[pivot_row][col] # 1
         THEN RowspanEliminateNoPivotSearch(Sm, comb, m, d, col + 1, pivot_row, pivots)
         ELSE LET hit == {r \in (pivot_row + 1)..m : Sm[r][col] = 1}
                  S2 == [r \in 1..m |->
                           IF r \in hit THEN XorRow(Sm[r], Sm[pivot_row]) ELSE Sm[r]]
                  c2 == [r \in 1..m |->
                           IF r \in hit THEN XorRow(comb[r], comb[pivot_row]) ELSE comb[r]]
              IN RowspanEliminateNoPivotSearch(S2, c2, m, d, col + 1, pivot_row + 1,
                                               Append(pivots, <<pivot_row, col>>))

\* The elimination loop that swaps the rows of S but not those of comb
RECURSIVE RowspanEliminateCombNotSwapped(_, _, _, _, _, _, _)
RowspanEliminateCombNotSwapped(Sm, comb, m, d, col, pivot_row, pivots) ==
    IF col > d \/ pivot_row > m THEN [S |-> Sm, comb |-> comb, pivots |-> pivots]
    ELSE LET cands == {r \in pivot_row..m : Sm[r][col] = 1}
         IN IF cands = {}
            THEN RowspanEliminateCombNotSwapped(Sm, comb, m, d, col + 1, pivot_row, pivots)
            ELSE LET pr == Min(cands)
                     S1 == SwapRows(Sm, pivot_row, pr)
                     hit == {r \in (pivot_row + 1)..m : S1[r][col] = 1}
                     S2 == [r \in 1..m |->
                              IF r \in hit THEN XorRow(S1[r], S1[pivot_row]) ELSE S1[r]]
                     c2 == [r \in 1..m |->
                              IF r \in hit THEN XorRow(comb[r], comb[pivot_row]) ELSE comb[r]]
                 IN RowspanEliminateCombNotSwapped(S2, c2, m, d, col + 1, pivot_row + 1,
                                                   Append(pivots, <<pivot_row, col>>))

\* The elimination loop of gf2_rowspan_decompose: forward elimination only
\* (rows below the pivot), recording the pivots (row, col) and the
\* combination matrix comb.
RECURSIVE RowspanEliminate(_, _, _, _, _, _, _)
RowspanEliminate(Sm, comb, m, d, col, pivot_row, pivots) ==
    IF col > d \/ pivot_row > m THEN [S |-> Sm, comb |-> comb, pivots |-> pivots]
    ELSE LET cands == {r \in pivot_row..m : Sm[r][col] = 1}
         IN IF cands = {}
            THEN RowspanEliminate(Sm, comb, m, d, col + 1, pivot_row, pivots)
            ELSE LET pr == Min(cands)
                     S1 == SwapRows(Sm, pivot_row, pr)
                     c1 == SwapRows(comb, pivot_row, pr)
                     hit == {r \in (pivot_row + 1)..m : S1[r][col] = 1}
                     S2 == [r \in 1..m |->
                              IF r \in hit THEN XorRow(S1[r], S1[pivot_row]) ELSE S1[r]]
                     c2 == [r \in 1..m |->
                              IF r \in hit THEN XorRow(c1[r], c1[pivot_row]) ELSE c1[r]]
                 IN RowspanEliminate(S2, c2, m, d, col + 1, pivot_row + 1,
                                     Append(pivots, <<pivot_row, col>>))

\* The reduction that records the reduced row's own index in place of its
\* row of comb
RECURSIVE RowspanReduceCombIgnored(_, _, _, _)
RowspanReduceCombIgnored(E, k, p, coeffs) ==
    IF k > Len(E.pivots) THEN [p |-> p, coeffs |-> coeffs]
    ELSE LET r == E.pivots[k][1]
             col == E.pivots[k][2]
         IN IF p[col] = 1
            THEN RowspanReduceCombIgnored(E, k + 1, XorRow(p, E.S[r]),
                    [i \in 1..Len(coeffs) |-> IF i = r THEN 1 - coeffs[i] ELSE coeffs[i]])
            ELSE RowspanReduceCombIgnored(E, k + 1, p, coeffs)

\* The reduction of p against the pivot rows, in pivot order
RECURSIVE RowspanReduce(_, _, _, _)
RowspanReduce(E, k, p, coeffs) ==
    IF k > Len(E.pivots) THEN [p |-> p, coeffs |-> coeffs]
    ELSE LET r == E.pivots[k][1]
             col == E.pivots[k][2]
         IN IF p[col] = 1
            THEN RowspanReduce(E, k + 1, XorRow(p, E.S[r]), XorRow(coeffs, E.comb[r]))
            ELSE RowspanReduce(E, k + 1, p, coeffs)

\* gf2_rowspan_decompose(S, p) -> (in_span, coeffs)
GF2RowspanDecompose(Sm, p) ==
    LET m == Len(Sm)
        d == IF m > 0 THEN Len(Sm[1]) ELSE Len(p)
        E == RowspanEliminate(Sm, IdentityMatrix(m), m, d, 1, 1, <<>>)
        R == RowspanReduce(E, 1, p, Zeros(m))
    IN [in_span |-> \A i \in 1..Len(R.p) : R.p[i] = 0, coeffs |-> R.coeffs]

\* -------------------------------------------------- clifford_from_map.py
\* _validate_partial_frame without the loop over pairs i != j
ValidateOnlyWithinPairs(Sl, Dl) ==
    \/ Len(Dl) # Len(Sl)
    \/ \E i \in 1..Len(Sl) : Commutes(Sl[i], Dl[i])

\* _validate_partial_frame(S, D) raises ValueError
ValidatePartialFrameRaises(Sl, Dl) ==
    LET m == Len(Sl)
    IN \/ Len(Dl) # m
       \/ \E i \in 1..m : Commutes(Sl[i], Dl[i])
       \/ \E i, j \in 1..m :
             /\ i # j
             /\ \/ ~Commutes(Sl[i], Sl[j])
                \/ ~Commutes(Dl[i], Dl[j])
                \/ ~Commutes(Sl[i], Dl[j])

\* _symp_commutes(v1, v2, n)
SympCommutes(v1, v2, n) == SympSum(v1, v2, n) = 0

\* itertools.combinations(range(n), w) with elements >= start, in
\* lexicographic order (qubits 0-based)
RECURSIVE Combinations(_, _, _)
Combinations(start, n, w) ==
    IF w = 0 THEN << <<>> >>
    ELSE IF start + w > n THEN <<>>
    ELSE [k \in 1..Len(Combinations(start + 1, n, w - 1)) |->
              <<start>> \o Combinations(start + 1, n, w - 1)[k]]
         \o Combinations(start + 1, n, w)

\* ops = [1, 3, 2]  (X, Z, Y)
EnumOps == <<1, 3, 2>>

\* itertools.product(ops, repeat=w): the first position varies slowest
RECURSIVE OpsProduct(_)
OpsProduct(w) ==
    IF w = 0 THEN << <<>> >>
    ELSE Concat([a \in 1..3 |->
            [k \in 1..Len(OpsProduct(w - 1)) |-> <<EnumOps[a]>> \o OpsProduct(w - 1)[k]]])

PauliOn(n, qubits, pauli_ops) ==
    [i \in 1..n |->
        IF \E k \in 1..Len(qubits) : qubits[k] = i - 1
        THEN pauli_ops[CHOOSE k \in 1..Len(qubits) : qubits[k] = i - 1]
        ELSE 0]

PaulisOfWeight(n, w) ==
    LET cs == Combinations(0, n, w)
        ps == OpsProduct(w)
    IN Concat([c \in 1..Len(cs) |-> [k \in 1..Len(ps) |-> PauliOn(n, cs[c], ps[k])]])

\* _enumerate_paulis(n, max_weight): weight 1..max_weight
EnumeratePaulis(n, max_weight) ==
    Concat([w \in 1..max_weight |-> PaulisOfWeight(n, w)])

\* Base-4 digit q of val: 0=I, 1=X, 2=Y, 3=Z
Digit4(val, q) == (val \div Pow(4, q)) % 4

\* _enumerate_all_paulis(n): all non-identity Paulis, base-4 order
EnumerateAllPaulis(n) ==
    IF n <= 0 THEN <<>>
    ELSE [val \in 1..(Pow(4, n) - 1) |-> [i \in 1..n |-> Digit4(val, i - 1)]]

\* The elimination loop that clears a pivot column below the pivot only
RECURSIVE GF2SolveLoopForwardOnly(_, _, _, _, _, _)
GF2SolveLoopForwardOnly(aug, m, n, col, row, pivots) ==
    IF col > n \/ row > m THEN [aug |-> aug, pivots |-> pivots]
    ELSE LET cands == {r \in row..m : aug[r][col] = 1}
         IN IF cands = {} THEN GF2SolveLoopForwardOnly(aug, m, n, col + 1, row, pivots)
            ELSE LET a1 == SwapRows(aug, row, Min(cands))
                     a2 == [r \in 1..m |->
                              IF r > row /\ a1[r][col] = 1
                              THEN XorRow(a1[r], a1[row]) ELSE a1[r]]
                 IN GF2SolveLoopForwardOnly(a2, m, n, col + 1, row + 1,
                                            [pivots EXCEPT ![col] = row])

\* The elimination loop of _gf2_solve on the augmented matrix [A | b]
RECURSIVE GF2SolveLoop(_, _, _, _, _, _)
GF2SolveLoop(aug, m, n, col, row, pivots) ==
    IF col > n \/ row > m THEN [aug |-> aug, pivots |-> pivots]
    ELSE LET cands == {r \in row..m : aug[r][col] = 1}
         IN IF cands = {} THEN GF2SolveLoop(aug, m, n, col + 1, row, pivots)
            ELSE LET a1 == SwapRows(aug, row, Min(cands))
                     a2 == [r \in 1..m |->
                              IF r # row /\ a1[r][col] = 1
                              THEN XorRow(a1[r], a1[row]) ELSE a1[r]]
                 IN GF2SolveLoop(a2, m, n, col + 1, row + 1,
                                 [pivots EXCEPT ![col] = row])

\* _gf2_solve(A, b): one solution x of A x = b, or None (none |-> TRUE)
GF2Solve(A, b) ==
    LET m == Len(A)
        n == IF m > 0 THEN Len(A[1]) ELSE 0
        aug0 == [i \in 1..m |-> Append(A[i], b[i])]
        R == GF2SolveLoop(aug0, m, n, 1, 1, [c \in 1..n |-> -1])
        inconsistent ==
            \E r \in 1..m :
                /\ \A c \in 1..n : R.aug[r][c] = 0
                /\ R.aug[r][n + 1] = 1
    IN IF inconsistent THEN [none |-> TRUE, x |-> <<>>]
       ELSE [none |-> FALSE,
             x |-> [c \in 1..n |->
                      IF R.pivots[c] # -1 THEN R.aug[R.pivots[c]][n + 1] ELSE 0]]

\* A frame entry that is still None (a PauliString of a frame has >= 1 opcode)
NoPauli == <<>>

RECURSIVE VecsOf(_, _, _)
VecsOf(img, n, k) ==
    IF k > Len(img) THEN <<>>
    ELSE (IF img[k] # NoPauli THEN <<SympVec(img[k], n)>> ELSE <<>>) \o VecsOf(img, n, k + 1)

\* existing: the vectors of the non-None X images, then of the non-None Z images
ExistingVectors(Ximg, Zimg, n) == VecsOf(Ximg, n, 1) \o VecsOf(Zimg, n, 1)

CommutesWithAll(v, existing, n) ==
    \A k \in 1..Len(existing) : SympCommutes(v, existing[k], n)

\* gf2_rowspan_decompose(mat, v) if mat else (False, None)
InSpanOf(mat, v) == IF mat = <<>> THEN FALSE ELSE GF2RowspanDecompose(mat, v).in_span

\* The candidates of one pass of the weight loop (x_search_w or z_search_w)
CandidatesAt(n, w) ==
    EnumeratePaulis(n, w) \o (IF w = n THEN EnumerateAllPaulis(n) ELSE <<>>)

\* The candidates in the order the weight loop 1..max_weight visits them
SearchOrder(n, max_weight) == Concat([w \in 1..max_weight |-> CandidatesAt(n, w)])

\* The candidate lists of the frames the calls below are made on, enumerated
\* once: [n][max_weight] is SearchOrder(n, max_weight), [n][0] is
\* _enumerate_all_paulis(n)
EnumerationTable ==
    [n \in 1..Max({NumQubits, WideQubits}) |->
        [w \in 0..MaxWeightSearch |->
            IF w = 0 THEN EnumerateAllPaulis(n) ELSE SearchOrder(n, w)]]

\* The fallback enumeration of Z candidates (lines 207-226)
RECURSIVE EnumerateZ(_, _, _, _, _)
EnumerateZ(cands, k, vX, temp_existing, n) ==
    IF k > Len(cands) THEN NoPauli
    ELSE LET v == SympVec(cands[k], n)
         IN IF SympCommutes(v, vX, n) THEN EnumerateZ(cands, k + 1, vX, temp_existing, n)
            ELSE IF ~CommutesWithAll(v, temp_existing, n)
                 THEN EnumerateZ(cands, k + 1, vX, temp_existing, n)
            ELSE IF InSpanOf(temp_existing, v)
                 THEN EnumerateZ(cands, k + 1, vX, temp_existing, n)
            ELSE cands[k]

\* The Z partner taken from the linear system without the span test
ZPartnerUnchecked(vX, existing, n, max_weight) ==
    LET temp_existing == Append(existing, vX)
        rhs == [k \in 1..Len(temp_existing) |-> IF k = Len(temp_existing) THEN 1 ELSE 0]
        sol == GF2Solve(temp_existing, rhs)
    IN IF ~sol.none THEN VecToPauli(sol.x)
       ELSE EnumerateZ(EnumerationTable[n][max_weight], 1, vX, temp_existing, n)

\* The Z partner of an admissible X candidate (lines 186-226): the solution
\* of the linear system if it is outside the span, else the enumeration
ZPartner(vX, existing, n, max_weight) ==
    LET temp_existing == Append(existing, vX)
        rhs == [k \in 1..Len(temp_existing) |-> IF k = Len(temp_existing) THEN 1 ELSE 0]
        sol == GF2Solve(temp_existing, rhs)
        rejected == sol.none \/ GF2RowspanDecompose(temp_existing, sol.x).in_span
    IN IF ~rejected THEN VecToPauli(sol.x)
       ELSE EnumerateZ(EnumerationTable[n][max_weight], 1, vX, temp_existing, n)

\* The weight-bounded search for a pair (lines 170-235)
RECURSIVE SearchPair(_, _, _, _, _)
SearchPair(cands, k, existing, n, max_weight) ==
    IF k > Len(cands) THEN [found |-> FALSE, X |-> NoPauli, Z |-> NoPauli]
    ELSE LET vX == SympVec(cands[k], n)
         IN IF ~CommutesWithAll(vX, existing, n)
            THEN SearchPair(cands, k + 1, existing, n, max_weight)
            ELSE IF InSpanOf(existing, vX)
            THEN SearchPair(cands, k + 1, existing, n, max_weight)
            ELSE LET Z_candidate == ZPartner(vX, existing, n, max_weight)
                 IN IF Z_candidate = NoPauli
                    THEN SearchPair(cands, k + 1, existing, n, max_weight)
                    ELSE [found |-> TRUE, X |-> cands[k], Z |-> Z_candidate]

\* commuting_candidates of the final fallback (lines 239-247)
RECURSIVE CommutingCandidates(_, _, _, _)
CommutingCandidates(all, k, existing, n) ==
    IF k > Len(all) THEN <<>>
    ELSE LET v == SympVec(all[k], n)
         IN (IF CommutesWithAll(v, existing, n) /\ ~InSpanOf(existing, v)
             THEN <<all[k]>> ELSE <<>>)
            \o CommutingCandidates(all, k + 1, existing, n)

\* The pair loop of the final fallback (lines 248-263)
RECURSIVE BruteForcePair(_, _, _, _, _)
BruteForcePair(cc, i, j, existing, n) ==
    IF i > Len(cc) THEN [found |-> FALSE, X |-> NoPauli, Z |-> NoPauli]
    ELSE IF j > Len(cc) THEN BruteForcePair(cc, i + 1, i + 2, existing, n)
    ELSE LET vX == SympVec(cc[i], n)
             vZ == SympVec(cc[j], n)
         IN IF SympCommutes(vX, vZ, n) THEN BruteForcePair(cc, i, j + 1, existing, n)
            ELSE IF InSpanOf(Append(existing, vX), vZ)
                 THEN BruteForcePair(cc, i, j + 1, existing, n)
            ELSE [found |-> TRUE, X |-> cc[i], Z |-> cc[j]]

\* One iteration of the loop "for q in range(n)" for a qubit whose pair is
\* missing: the pair found, or found |-> FALSE for the RuntimeError
CompletePair(Ximg, Zimg, n, max_weight) ==
    LET existing == ExistingVectors(Ximg, Zimg, n)
        first == SearchPair(EnumerationTable[n][max_weight], 1, existing, n, max_weight)
    IN IF first.found THEN first
       ELSE BruteForcePair(CommutingCandidates(EnumerationTable[n][0], 1, existing, n),
                           1, 2, existing, n)

\* ------------------------------ synthesize_clifford_from_sd_pairs: the call
Raised(error) == [status |-> "raised", error |-> error]

Running == [status |-> "running"]

\* target_qubits = list(range(m)) when the argument is None
ResolvedTargets(in) ==
    IF in.targets_given THEN in.target_qubits ELSE [i \in 1..Len(in.pairs) |-> i - 1]

\* Python list indexing: index q of a list of length n (negative q counts
\* from the end); 0 stands for IndexError, else the 1-based position
ListIndex(q, n) ==
    IF q >= 0 /\ q < n THEN q + 1
    ELSE IF q < 0 /\ q >= -n THEN n + q + 1
    ELSE 0

\* for i, q in enumerate(target_qubits): Z_img[q] = S[i]; X_img[q] = D[i]
RECURSIVE PlacePairs(_, _, _, _, _, _)
PlacePairs(Ximg, Zimg, tq, Sl, Dl, i) ==
    IF i > Len(tq) THEN [err |-> None, X |-> Ximg, Z |-> Zimg]
    ELSE LET pos == ListIndex(tq[i], Len(Zimg))
         IN IF pos = 0 THEN [err |-> "IndexError", X |-> Ximg, Z |-> Zimg]
            ELSE PlacePairs([Ximg EXCEPT ![pos] = Dl[i]], [Zimg EXCEPT ![pos] = Sl[i]],
                            tq, Sl, Dl, i + 1)

\* lines 321-331: argument checks, target_qubits defaulting
CheckArguments ==
    /\ syn_pc = "call"
    /\ LET m == Len(syn_in.pairs)
           tq == ResolvedTargets(syn_in)
           bad == \/ syn_in.num_qubits <= 0
                  \/ syn_in.direction \notin {"pairs_to_standard", "standard_to_pairs"}
                  \/ Len(tq) # m
                  \/ Cardinality({tq[i] : i \in 1..Len(tq)}) # m
       IN IF bad
          THEN /\ syn_pc' = "raised"
               /\ syn_out' = Raised("ValueError")
               /\ UNCHANGED target_qubits
          ELSE /\ syn_pc' = "parse"
               /\ target_qubits' = tq
               /\ UNCHANGED syn_out
    /\ UNCHANGED <<syn_in, S, D, X_img, Z_img, q_loop, searched>>
    /\ UNCHANGED <<cls_vars, can_vars, fn_vars>>

\* lines 333-334: parse every S and D with num_qubits
ParsePairs ==
    /\ syn_pc = "parse"
    /\ LET n == syn_in.num_qubits
           ps == [i \in 1..Len(syn_in.pairs) |-> ParseSparsePauli(syn_in.pairs[i][1], n)]
           pd == [i \in 1..Len(syn_in.pairs) |-> ParseSparsePauli(syn_in.pairs[i][2], n)]
           bad == \E i \in 1..Len(syn_in.pairs) : ps[i].err # None \/ pd[i].err # None
       IN IF bad
          THEN /\ syn_pc' = "raised"
               /\ syn_out' = Raised("ValueError")
               /\ UNCHANGED <<S, D>>
          ELSE /\ syn_pc' = "validate"
               /\ S' = [i \in 1..Len(ps) |-> ps[i].p]
               /\ D' = [i \in 1..Len(pd) |-> pd[i].p]
               /\ UNCHANGED syn_out
    /\ UNCHANGED <<syn_in, target_qubits, X_img, Z_img, q_loop, searched>>
    /\ UNCHANGED <<cls_vars, can_vars, fn_vars>>

\* line 335: _validate_partial_frame(S, D)
ValidatePartialFrame ==
    /\ syn_pc = "validate"
    /\ IF ValidatePartialFrameRaises(S, D)
       THEN /\ syn_pc' = "raised"
            /\ syn_out' = Raised("ValueError")
       ELSE /\ syn_pc' = "place"
            /\ UNCHANGED syn_out
    /\ UNCHANGED <<syn_in, S, D, target_qubits, X_img, Z_img, q_loop, searched>>
    /\ UNCHANGED <<cls_vars, can_vars, fn_vars>>

\* lines 337-341: the frame with the supplied pairs at their target qubits
PlaceSuppliedPairs ==
    /\ syn_pc = "place"
    /\ LET n == syn_in.num_qubits
           r == PlacePairs([i \in 1..n |-> NoPauli], [i \in 1..n |-> NoPauli],
                           target_qubits, S, D, 1)
       IN IF r.err # None
          THEN /\ syn_pc' = "raised"
               /\ syn_out' = Raised(r.err)
               /\ UNCHANGED <<X_img, Z_img>>
          ELSE /\ syn_pc' = "complete"
               /\ X_img' = r.X
               /\ Z_img' = r.Z
               /\ UNCHANGED syn_out
    /\ UNCHANGED <<syn_in, S, D, target_qubits, q_loop, searched>>
    /\ UNCHANGED <<cls_vars, can_vars, fn_vars>>

\* lines 153-154: entry of _complete_symplectic_frame
EnterCompletion ==
    /\ syn_pc = "complete"
    /\ IF syn_in.completion # "search"
       THEN /\ syn_pc' = "raised"
            /\ syn_out' = Raised("ValueError")
            /\ UNCHANGED q_loop
       ELSE /\ syn_pc' = "loop"
            /\ q_loop' = 0
            /\ UNCHANGED syn_out
    /\ UNCHANGED <<syn_in, S, D, target_qubits, X_img, Z_img, searched>>
    /\ UNCHANGED <<cls_vars, can_vars, fn_vars>>

\* lines 157-158: the pair of qubit q is already there
SkipQubit ==
    /\ syn_pc = "loop"
    /\ q_loop < syn_in.num_qubits
    /\ X_img[q_loop + 1] # NoPauli /\ Z_img[q_loop + 1] # NoPauli
    /\ q_loop' = q_loop + 1
    /\ UNCHANGED <<syn_in, syn_pc, S, D, target_qubits, X_img, Z_img, searched, syn_out>>
    /\ UNCHANGED <<cls_vars, can_vars, fn_vars>>

\* lines 160-265: search a pair for qubit q
CompleteQubit ==
    /\ syn_pc = "loop"
    /\ q_loop < syn_in.num_qubits
    /\ X_img[q_loop + 1] = NoPauli \/ Z_img[q_loop + 1] = NoPauli
    /\ searched' = searched + 1
    /\ \E r \in {CompletePair(X_img, Z_img, syn_in.num_qubits, syn_in.max_weight_search)} :
          IF r.found
          THEN /\ X_img' = [X_img EXCEPT ![q_loop + 1] = r.X]
               /\ Z_img' = [Z_img EXCEPT ![q_loop + 1] = r.Z]
               /\ q_loop' = q_loop + 1
               /\ UNCHANGED <<syn_pc, syn_out>>
          ELSE /\ syn_pc' = "raised"
               /\ syn_out' = Raised("RuntimeError")
               /\ UNCHANGED <<X_img, Z_img, q_loop>>
    /\ UNCHANGED <<syn_in, S, D, target_qubits>>
    /\ UNCHANGED <<cls_vars, can_vars, fn_vars>>

\* lines 351-365: the tableau of the frame, inverted for pairs_to_standard,
\* its circuit and the diagnostics
BuildTableau ==
    /\ syn_pc = "loop"
    /\ q_loop = syn_in.num_qubits
    /\ \E inv \in {IF syn_in.direction = "pairs_to_standard"
                     THEN TableauInverse([xs |-> X_img, zs |-> Z_img])
                     ELSE [ok |-> TRUE, xs |-> X_img, zs |-> Z_img]} :
       LET C == [xs |-> inv.xs, zs |-> inv.zs]
       IN IF ~inv.ok
          THEN /\ syn_pc' = "raised"
               /\ syn_out' = Raised("ValueError")
          ELSE /\ syn_pc' = "returned"
               /\ syn_out' = [status |-> "returned",
                              tableau |-> C,
                              circuit |-> TableauToCircuit(C),
                              target_qubits |-> target_qubits,
                              diagnostics |->
                                [xs_sparse |-> [i \in 1..Len(X_img) |-> PaulistringToSparse(X_img[i])],
                                 zs_sparse |-> [i \in 1..Len(Z_img) |-> PaulistringToSparse(Z_img[i])]]]
    /\ UNCHANGED <<syn_in, S, D, target_qubits, X_img, Z_img, q_loop, searched>>
    /\ UNCHANGED <<cls_vars, can_vars, fn_vars>>

\* ---------------------------------------------------------- call arguments
PaulisOn(n) == [1..n -> 0..3]

\* Two Pauli patterns anticommute iff they differ, both non-identity, on an
\* odd number of qubits
Anticommute(a, b) ==
    Cardinality({i \in 1..Len(a) : a[i] # 0 /\ b[i] # 0 /\ a[i] # b[i]}) % 2 = 1

\* A list of <<S, D>> pairs is a partial symplectic frame
IsFrame(pl) ==
    /\ \A i \in 1..Len(pl) : Anticommute(pl[i][1], pl[i][2])
    /\ \A i, j \in 1..Len(pl) :
          i # j => /\ ~Anticommute(pl[i][1], pl[j][1])
                   /\ ~Anticommute(pl[i][2], pl[j][2])
                   /\ ~Anticommute(pl[i][1], pl[j][2])

PairLists(n, m) == [1..m -> PaulisOn(n) \X PaulisOn(n)]

SparsePairs(pl) ==
    [i \in 1..Len(pl) |-> <<PaulistringToSparse(pl[i][1]), PaulistringToSparse(pl[i][2])>>]

\* Sequences of length m of distinct elements of 0..n-1
InjectiveTargets(n, m) ==
    {t \in [1..m -> 0..(n - 1)] : \A i, j \in 1..m : i # j => t[i] # t[j]}

Call(pairs, n, given, tq, dir, mw, comp) ==
    [pairs |-> pairs, num_qubits |-> n, targets_given |-> given, target_qubits |-> tq,
     direction |-> dir, max_weight_search |-> mw, completion |-> comp]

\* Calls that meet the documented preconditions
WellFormedCall(in) ==
    \E n \in 1..NumQubits : \E m \in 0..Min({MaxPairs, n}) :
        \E pl \in PairLists(n, m) :
            /\ IsFrame(pl)
            /\ \E mw \in 1..MaxWeightSearch :
                  \/ \E tq \in InjectiveTargets(n, m) :
                        \E dir \in {"pairs_to_standard", "standard_to_pairs"} :
                            in = Call(SparsePairs(pl), n, TRUE, tq, dir, mw, "search")
                  \/ in = Call(SparsePairs(pl), n, FALSE, <<>>, "pairs_to_standard", mw, "search")

\* Calls whose pairs break the commutation pattern, other arguments default
InvalidFrameCall(in) ==
    \E n \in 1..NumQubits : \E m \in 1..MaxPairs :
        \E pl \in PairLists(n, m) :
            /\ ~IsFrame(pl)
            /\ in = Call(SparsePairs(pl), n, FALSE, <<>>, "pairs_to_standard",
                         MaxWeightSearch, "search")

\* The Pauli with op on qubit q (0-based) and identity elsewhere
SingleQubitPauli(n, q, op) == [i \in 1..n |-> IF i = q + 1 THEN op ELSE 0]

\* Calls on WideQubits qubits with one valid pair, whose stabilizer acts on
\* qubit 0 only, placed on the last qubit: the other WideQubits - 1 pairs are
\* left to frame completion
WideCall(in) ==
    \E op \in 1..3 : \E d \in PaulisOn(WideQubits) :
        /\ Anticommute(SingleQubitPauli(WideQubits, 0, op), d)
        /\ \E mw \in 1..MaxWeightSearch :
              in = Call(SparsePairs(<< <<SingleQubitPauli(WideQubits, 0, op), d>> >>),
                        WideQubits, TRUE, <<WideQubits - 1>>, "standard_to_pairs", mw, "search")

\* The pairs used to exercise the other arguments
ArgumentPool ==
    { <<>>,
      << << << <<"Z", 0>> >>, << <<"X", 0>> >> >> >>,
      << << << <<"Z", 0>> >>, << <<"Z", 0>> >> >> >>,
      << << << <<"Z", 0>> >>, << <<"X", 0>> >> >>, << << <<"Z", 1>> >>, << <<"X", 1>> >> >> >> }

\* Calls over every combination of the other arguments, good and bad
ArgumentCall(in) ==
    \E pairs \in ArgumentPool : \E n \in (-1)..NumQubits :
        \E k \in 0..MaxPairs : \E tq \in [1..k -> (-1)..NumQubits] :
            \E dir \in {"pairs_to_standard", "standard_to_pairs", "bad"} :
                \E comp \in {"search", "algebra"} :
                    in = Call(pairs, n, TRUE, tq, dir, MaxWeightSearch, comp)

\* --------------------------------------------------------- specification
FnIdle ==
    /\ fn_in = [op |-> "none"]
    /\ fn_pc = "idle"
    /\ fn_args = <<>>
    /\ fn_out = [status |-> "running"]

CanIdle ==
    /\ can_in = [stabilizers |-> <<>>, given |-> FALSE, num_qubits |-> 0]
    /\ can_pc = "idle"
    /\ n_can = 0
    /\ stab_stim = <<>>
    /\ destab_vecs = <<>>
    /\ destab_stim = <<>>
    /\ logical_x_stim = <<>>
    /\ logical_z_stim = <<>>
    /\ current_stabs = <<>>
    /\ current_destabs = <<>>
    /\ circuit = <<>>
    /\ i_loop = 0
    /\ can_out = Running

ClsIdle ==
    /\ cls_in = [candidate |-> <<>>, stabilizers |-> <<>>, given |-> FALSE, num_qubits |-> 0]
    /\ cls_pc = "idle"
    /\ n_inferred = 0
    /\ p_cand = <<>>
    /\ gens = <<>>
    /\ anticommuting_indices = <<>>
    /\ cls_out = Running

SynInit ==
    /\ \/ WellFormedCall(syn_in)
       \/ InvalidFrameCall(syn_in)
       \/ ArgumentCall(syn_in)
       \/ WideCall(syn_in)
    /\ syn_pc = "call"
    /\ S = <<>>
    /\ D = <<>>
    /\ target_qubits = <<>>
    /\ X_img = <<>>
    /\ Z_img = <<>>
    /\ q_loop = 0
    /\ searched = 0
    /\ syn_out = Running
    /\ ClsIdle
    /\ CanIdle
    /\ FnIdle

SynNext ==
    \/ CheckArguments
    \/ ParsePairs
    \/ ValidatePartialFrame
    \/ PlaceSuppliedPairs
    \/ EnterCompletion
    \/ SkipQubit
    \/ CompleteQubit
    \/ BuildTableau

SpecSyn == SynInit /\ [][SynNext]_vars

\* --------------------------------------------- is_logical_pauli_sparse
\* The product cut to the length of the shorter operand
MulOpsTruncated(a, b) ==
    [i \in 1..Min({Len(a), Len(b)}) |->
        IF a[i] = 0 THEN b[i]
        ELSE IF b[i] = 0 THEN a[i]
        ELSE IF a[i] = b[i] THEN 0
        ELSE IF {a[i], b[i]} = {1, 3} THEN 2
        ELSE IF {a[i], b[i]} = {1, 2} THEN 3
        ELSE 1]

\* PauliString.__mul__(other): the opcodes of the product
MulOps(a, b) ==
    LET n == Max({Len(a), Len(b)})
        A(i) == IF i <= Len(a) THEN a[i] ELSE 0
        B(i) == IF i <= Len(b) THEN b[i] ELSE 0
    IN [i \in 1..n |->
          IF A(i) = 0 THEN B(i)
          ELSE IF B(i) = 0 THEN A(i)
          ELSE IF A(i) = B(i) THEN 0
          ELSE IF {A(i), B(i)} = {1, 3} THEN 2
          ELSE IF {A(i), B(i)} = {1, 2} THEN 3
          ELSE 1]

\* _infer_num_qubits(): num_qubits, or one more than the largest index used
InferNumQubits(in) ==
    IF in.given THEN [err |-> None, n |-> in.num_qubits]
    ELSE LET specs == <<in.candidate>> \o in.stabilizers
             parsed == [k \in 1..Len(specs) |-> ParseTokens(specs[k])]
             idx == UNION {DOMAIN parsed[k].tokens : k \in 1..Len(specs)}
         IN IF \E k \in 1..Len(specs) : parsed[k].err # None
            THEN [err |-> "ValueError", n |-> 0]
            ELSE [err |-> None, n |-> IF idx = {} THEN 0 ELSE Max(idx) + 1]

\* The early exit for m == 0 that calls every candidate the trivial stabilizer
NoStabilizersAlwaysTrivial(p) ==
    [result |-> "stabilizer", none |-> FALSE,
     generator_indices |-> <<>>, product_sparse |-> <<>>]

\* lines 218-226: the result when no stabilizers are provided
NoStabilizersResult(p) ==
    IF \A q \in 1..Len(p) : p[q] = 0
    THEN [result |-> "stabilizer", none |-> FALSE,
          generator_indices |-> <<>>, product_sparse |-> <<>>]
    ELSE [result |-> "logical", none |-> TRUE]

\* The commutation loop that stops at the first anticommuting generator
RECURSIVE FirstAnticommutingOnly(_, _, _)
FirstAnticommutingOnly(vc, vg, i) ==
    IF i > Len(vg) THEN <<>>
    ELSE IF SympSum(vc, vg[i], Len(vc) \div 2) = 1 THEN <<i - 1>>
    ELSE FirstAnticommutingOnly(vc, vg, i + 1)

\* lines 237-246: the indices i >= the given one (1-based here, 0-based in
\* the result) with comm == 1
RECURSIVE AnticommutingFrom(_, _, _)
AnticommutingFrom(vc, vg, i) ==
    IF i > Len(vg) THEN <<>>
    ELSE (IF SympSum(vc, vg[i], Len(vc) \div 2) = 1 THEN <<i - 1>> ELSE <<>>)
            \o AnticommutingFrom(vc, vg, i + 1)

\* selected_indices = [i for i, v in enumerate(coeffs) if v == 1]
RECURSIVE SelectedFrom(_, _)
SelectedFrom(coeffs, i) ==
    IF i > Len(coeffs) THEN <<>>
    ELSE (IF coeffs[i] = 1 THEN <<i - 1>> ELSE <<>>) \o SelectedFrom(coeffs, i + 1)

\* prod = PauliString(n); for i in selected_indices: prod *= gens[i]
RECURSIVE ProductOf(_, _, _, _)
ProductOf(prod, gl, selected, k) ==
    IF k > Len(selected) THEN prod
    ELSE ProductOf(MulOps(prod, gl[selected[k] + 1]), gl, selected, k + 1)

\* lines 201-215: infer n, parse the candidate and the generators
ParseCandidateAndGenerators ==
    /\ cls_pc = "call"
    /\ LET inf == InferNumQubits(cls_in)
           pc == ParseSparsePauli(cls_in.candidate, inf.n)
           pg == [i \in 1..Len(cls_in.stabilizers) |->
                    ParseSparsePauli(cls_in.stabilizers[i], inf.n)]
           bad == \/ inf.err # None
                  \/ pc.err # None
                  \/ \E i \in 1..Len(pg) : pg[i].err # None
       IN IF bad
          THEN /\ cls_pc' = "raised"
               /\ cls_out' = Raised("ValueError")
               /\ UNCHANGED <<n_inferred, p_cand, gens>>
          ELSE /\ cls_pc' = "parsed"
               /\ n_inferred' = inf.n
               /\ p_cand' = pc.p
               /\ gens' = [i \in 1..Len(pg) |-> pg[i].p]
               /\ UNCHANGED cls_out
    /\ UNCHANGED <<cls_in, anticommuting_indices>>
    /\ UNCHANGED <<syn_vars, can_vars, fn_vars>>

\* lines 218-226: early exit when no stabilizers are provided
NoStabilizers ==
    /\ cls_pc = "parsed"
    /\ Len(gens) = 0
    /\ cls_pc' = "returned"
    /\ cls_out' = [status |-> "returned", details |-> NoStabilizersResult(p_cand)]
    /\ UNCHANGED <<cls_in, n_inferred, p_cand, gens, anticommuting_indices>>
    /\ UNCHANGED <<syn_vars, can_vars, fn_vars>>

\* lines 229-251: commutation check via the symplectic form
CommutationCheck ==
    /\ cls_pc = "parsed"
    /\ Len(gens) > 0
    /\ LET vc == SympVec(p_cand, n_inferred)
           vg == [i \in 1..Len(gens) |-> SympVec(gens[i], n_inferred)]
           found == AnticommutingFrom(vc, vg, 1)
       IN /\ anticommuting_indices' = found
          /\ IF found # <<>>
             THEN /\ cls_pc' = "returned"
                  /\ cls_out' = [status |-> "returned",
                                 details |-> [result |-> "anticommuting", none |-> FALSE,
                                              anticommuting_with |-> found]]
             ELSE /\ cls_pc' = "span"
                  /\ UNCHANGED cls_out
    /\ UNCHANGED <<cls_in, n_inferred, p_cand, gens>>
    /\ UNCHANGED <<syn_vars, can_vars, fn_vars>>

\* lines 253-270: span membership and the decomposition
SpanCheck ==
    /\ cls_pc = "span"
    /\ LET Sm == [i \in 1..Len(gens) |-> SympVec(gens[i], n_inferred)]
           r == GF2RowspanDecompose(Sm, SympVec(p_cand, n_inferred))
           selected_indices == SelectedFrom(r.coeffs, 1)
           prod == ProductOf(PauliString(n_inferred), gens, selected_indices, 1)
       IN cls_out' =
            [status |-> "returned",
             details |-> IF r.in_span
                         THEN [result |-> "stabilizer", none |-> FALSE,
                               generator_indices |-> selected_indices,
                               product_sparse |-> PaulistringToSparse(prod)]
                         ELSE [result |-> "logical", none |-> TRUE]]
    /\ cls_pc' = "returned"
    /\ UNCHANGED <<cls_in, n_inferred, p_cand, gens, anticommuting_indices>>
    /\ UNCHANGED <<syn_vars, can_vars, fn_vars>>

\* ------------------------------------------------- classifier arguments
ClsCall(candidate, stabilizers, given, n) ==
    [candidate |-> candidate, stabilizers |-> stabilizers, given |-> given, num_qubits |-> n]

\* Every candidate against every generator list, commuting and independent
\* or not, with num_qubits omitted or given (large enough or too small)
GeneratorListCall(in) ==
    \E m \in 0..MaxGens : \E gl \in [1..m -> PaulisOn(ClsQubits)] :
        \E c \in PaulisOn(ClsQubits) :
            LET stabs == [i \in 1..m |-> PaulistringToSparse(gl[i])]
            IN \/ in = ClsCall(PaulistringToSparse(c), stabs, FALSE, 0)
               \/ \E k \in 0..ClsQubits :
                     in = ClsCall(PaulistringToSparse(c), stabs, TRUE, k)

\* The reported 5-qubit code with generators X3, X4, X0 X1, X1 X2
ReportedStabilizers ==
    << << <<"X", 3>> >>, << <<"X", 4>> >>,
       << <<"X", 0>>, <<"X", 1>> >>, << <<"X", 1>>, <<"X", 2>> >> >>

ReportedCandidates ==
    { << <<"Z", 0>>, <<"Z", 1>>, <<"Z", 2>> >>,
      << <<"X", 0>>, <<"X", 1>>, <<"X", 2>> >>,
      << <<"Z", 3>> >>,
      << <<"X", 0>>, <<"X", 2>>, <<"X", 4>> >>,
      <<>> }
        \cup {ReportedStabilizers[i] : i \in 1..4}

ReportedCall(in) ==
    \E c \in ReportedCandidates : \E given \in BOOLEAN :
        in = ClsCall(c, ReportedStabilizers, given, IF given THEN 5 ELSE 0)

SynIdle ==
    /\ syn_in = Call(<<>>, 1, FALSE, <<>>, "pairs_to_standard", 1, "search")
    /\ syn_pc = "idle"
    /\ S = <<>>
    /\ D = <<>>
    /\ target_qubits = <<>>
    /\ X_img = <<>>
    /\ Z_img = <<>>
    /\ q_loop = 0
    /\ searched = 0
    /\ syn_out = Running

ClsInit ==
    /\ GeneratorListCall(cls_in) \/ ReportedCall(cls_in)
    /\ cls_pc = "call"
    /\ n_inferred = 0
    /\ p_cand = <<>>
    /\ gens = <<>>
    /\ anticommuting_indices = <<>>
    /\ cls_out = Running
    /\ SynIdle
    /\ CanIdle
    /\ FnIdle

ClsNext ==
    \/ ParseCandidateAndGenerators
    \/ NoStabilizers
    \/ CommutationCheck
    \/ SpanCheck

SpecCls == ClsInit /\ [][ClsNext]_vars

\* ------------------------------------------ stabilizer_canonicalization.py
\* (np.dot(a_x, b_z) + np.dot(a_z, b_x)) % 2 on vectors x ++ z
Symp(a, b) == SympSum(a, b, Len(a) \div 2)

CommutesWithVecs(v, vs) == \A j \in 1..Len(vs) : Symp(v, vs[j]) = 0

\* The first index of a sequence that is in the set ok, 0 if there is none
FirstIn(ok) == IF ok = {} THEN 0 ELSE Min(ok)

\* for q in range(n): for pauli_type in [1, 3]
SingleQubitDestabilizers(n) ==
    [c \in 1..(2 * n) |->
        SympVec(PauliOn(n, <<(c - 1) \div 2>>, <<IF c % 2 = 1 THEN 1 ELSE 3>>), n)]

\* The ops tried on a pair of qubits; ops[0] goes on q1 and ops[2] on q2
\* (positions 1 and 3 here)
TwoQubitOps ==
    << <<1, 0, 3, 0>>, <<1, 0, 0, 3>>, <<3, 0, 1, 0>>, <<3, 0, 0, 1>>,
       <<0, 1, 0, 3>>, <<0, 3, 0, 1>>, <<1, 0, 1, 0>>, <<3, 0, 3, 0>> >>

\* for q1 in range(n): for q2 in range(q1 + 1, n): for ops in [...]
TwoQubitDestabilizers(n) ==
    LET cs == Combinations(0, n, 2)
    IN Concat([c \in 1..Len(cs) |->
          [o \in 1..Len(TwoQubitOps) |->
              SympVec(PauliOn(n, cs[c], <<TwoQubitOps[o][1], TwoQubitOps[o][3]>>), n)]])

\* The candidates of the logical searches: weight 1..n, combinations of
\* qubits, product([1, 3, 2])
LogicalCandidates(n) ==
    LET ps == EnumeratePaulis(n, n)
    IN [c \in 1..Len(ps) |-> SympVec(ps[c], n)]

\* for q in range(n): for pauli_type in [1, 3, 2]
PaddingCandidates(n) ==
    LET ps == PaulisOfWeight(n, 1)
    IN [c \in 1..Len(ps) |-> SympVec(ps[c], n)]

\* The candidate lists of the searches for every n, enumerated once
CandidateTable ==
    [n \in 1..CanQubits |->
        [destabilizer |-> SingleQubitDestabilizers(n) \o TwoQubitDestabilizers(n),
         logical |-> LogicalCandidates(n),
         padding |-> PaddingCandidates(n)]]

\* The search that does not compare with the destabilizers found so far
DestabilizerForIgnoringDestabs(i, Sv, Dv, n) ==
    LET cands == CandidateTable[n].destabilizer
        ok == {c \in 1..Len(cands) :
                 /\ Symp(cands[c], Sv[i]) = 1
                 /\ \A j \in 1..Len(Sv) : j # i => Symp(cands[c], Sv[j]) = 0}
    IN IF ok = {} THEN [found |-> FALSE, v |-> <<>>]
       ELSE [found |-> TRUE, v |-> cands[Min(ok)]]

\* lines 159-230 for one i (1-based here): the first single-qubit, else the
\* first two-qubit candidate that anticommutes with stabilizer i and commutes
\* with the other stabilizers and the destabilizers found so far
DestabilizerFor(i, Sv, Dv, n) ==
    LET cands == CandidateTable[n].destabilizer
        ok == {c \in 1..Len(cands) :
                 /\ Symp(cands[c], Sv[i]) = 1
                 /\ \A j \in 1..Len(Sv) : j # i => Symp(cands[c], Sv[j]) = 0
                 /\ CommutesWithVecs(cands[c], Dv)}
    IN IF ok = {} THEN [found |-> FALSE, v |-> <<>>]
       ELSE [found |-> TRUE, v |-> cands[Min(ok)]]

\* in_stab_span or in_destab_span or in_combined_span
InSpans(v, Sv, Dv) ==
    \/ GF2RowspanDecompose(Sv, v).in_span
    \/ Dv # <<>> /\ GF2RowspanDecompose(Dv, v).in_span
    \/ GF2RowspanDecompose(Sv \o Dv, v).in_span

\* lines 277-309: the conditions on a logical X candidate
LogicalXOk(v, Sv, Dv, lzs) ==
    /\ CommutesWithVecs(v, Sv)
    /\ CommutesWithVecs(v, lzs)
    /\ CommutesWithVecs(v, Dv)
    /\ ~InSpans(v, Sv, Dv)

\* The conditions without the anticommutation with the logical X
LogicalZOkAnyPartner(v, lx, Sv, Dv, lxs, lzs) ==
    /\ CommutesWithVecs(v, Sv)
    /\ \A j \in 1..Len(lzs) : Symp(v, lxs[j]) = 0 /\ Symp(v, lzs[j]) = 0
    /\ CommutesWithVecs(v, Dv)
    /\ ~InSpans(v, Sv, Dv)

\* lines 342-380: the conditions on a logical Z candidate for the logical X lx
LogicalZOk(v, lx, Sv, Dv, lxs, lzs) ==
    /\ CommutesWithVecs(v, Sv)
    /\ Symp(v, lx) = 1
    /\ \A j \in 1..Len(lzs) : Symp(v, lxs[j]) = 0 /\ Symp(v, lzs[j]) = 0
    /\ CommutesWithVecs(v, Dv)
    /\ ~InSpans(v, Sv, Dv)

\* lines 256-313: the index of the first candidate from c on that passes, or 0
RECURSIVE FirstLogicalX(_, _, _, _, _)
FirstLogicalX(cands, c, Sv, Dv, lzs) ==
    IF c > Len(cands) THEN 0
    ELSE IF LogicalXOk(cands[c], Sv, Dv, lzs) THEN c
    ELSE FirstLogicalX(cands, c + 1, Sv, Dv, lzs)

\* lines 323-384: the index of the first candidate from c on that passes, or 0
RECURSIVE FirstLogicalZ(_, _, _, _, _, _, _)
FirstLogicalZ(cands, c, lx, Sv, Dv, lxs, lzs) ==
    IF c > Len(cands) THEN 0
    ELSE IF LogicalZOk(cands[c], lx, Sv, Dv, lxs, lzs) THEN c
    ELSE FirstLogicalZ(cands, c + 1, lx, Sv, Dv, lxs, lzs)

\* lines 238-389: for _ in range(num_logical)
RECURSIVE LogicalSearch(_, _, _, _, _, _)
LogicalSearch(Sv, Dv, n, lxs, lzs, remaining) ==
    IF remaining = 0 THEN [lx |-> lxs, lz |-> lzs]
    ELSE LET cands == CandidateTable[n].logical
             xi == FirstLogicalX(cands, 1, Sv, Dv, lzs)
         IN IF xi = 0 THEN [lx |-> lxs, lz |-> lzs]
            ELSE LET zi == FirstLogicalZ(cands, 1, cands[xi], Sv, Dv, lxs, lzs)
                 IN IF zi = 0 THEN [lx |-> lxs, lz |-> lzs]
                    ELSE LogicalSearch(Sv, Dv, n, Append(lxs, cands[xi]),
                                       Append(lzs, cands[zi]), remaining - 1)

\* lines 413-534: while len(logical_x_stim) < n - k, add the first
\* single-qubit X/Z pair that fits
RECURSIVE PadLogicals(_, _, _, _, _, _)
PadLogicals(Sv, Dv, n, k, lxs, lzs) ==
    IF Len(lxs) >= n - k THEN [lx |-> lxs, lz |-> lzs]
    ELSE LET cands == CandidateTable[n].padding
             XOk(a) == /\ CommutesWithVecs(cands[a], Sv)
                       /\ CommutesWithVecs(cands[a], Dv)
                       /\ ~InSpans(cands[a], Sv, Dv)
                       /\ CommutesWithVecs(cands[a], lzs)
             ZOk(a, b) == /\ CommutesWithVecs(cands[b], Sv)
                          /\ CommutesWithVecs(cands[b], Dv)
                          /\ Symp(cands[b], cands[a]) = 1
                          /\ \A j \in 1..Len(lzs) :
                                Symp(cands[b], lxs[j]) = 0 /\ Symp(cands[b], lzs[j]) = 0
                          /\ ~InSpans(cands[b], Sv, Dv)
             xi == FirstIn({a \in 1..Len(cands) :
                              XOk(a) /\ \E b \in 1..Len(cands) : ZOk(a, b)})
         IN IF xi = 0 THEN [lx |-> lxs, lz |-> lzs]
            ELSE PadLogicals(Sv, Dv, n, k, Append(lxs, cands[xi]),
                             Append(lzs, cands[FirstIn({b \in 1..Len(cands) : ZOk(xi, b)})]))

\* _apply_swap(p, i, j)
ApplySwap(p, i, j) ==
    [q \in 1..Len(p) |-> IF q = i + 1 THEN p[j + 1] ELSE IF q = j + 1 THEN p[i + 1] ELSE p[q]]

\* _apply_h(p, i): X <-> Z
ApplyH(p, i) ==
    [p EXCEPT ![i + 1] = IF @ = 1 THEN 3 ELSE IF @ = 3 THEN 1 ELSE @]

\* _apply_s(p, i): X -> Y, Y -> X
ApplyS(p, i) ==
    [p EXCEPT ![i + 1] = IF @ = 1 THEN 2 ELSE IF @ = 2 THEN 1 ELSE @]

\* _apply_s_dag(p, i): X -> Y, Y -> X
ApplySDag(p, i) ==
    [p EXCEPT ![i + 1] = IF @ = 1 THEN 2 ELSE IF @ = 2 THEN 1 ELSE @]

\* The op with its X part toggled, and with its Z part toggled
GainX(op) == IF op = 0 THEN 1 ELSE IF op = 1 THEN 0 ELSE IF op = 3 THEN 2 ELSE 3

GainZ(op) == IF op = 0 THEN 3 ELSE IF op = 3 THEN 0 ELSE IF op = 1 THEN 2 ELSE 1

\* _apply_cx(p, ctrl, targ)
ApplyCX(p, ctrl, targ) ==
    LET op_c == p[ctrl + 1]
        op_t == p[targ + 1]
    IN [q \in 1..Len(p) |->
          IF q = targ + 1 /\ op_c \in {1, 2} THEN GainX(op_t)
          ELSE IF q = ctrl + 1 /\ op_t \in {3, 2} THEN GainZ(op_c)
          ELSE p[q]]

\* The CZ rule that updates qubit j only
ApplyCZOneSided(p, i, j) ==
    [q \in 1..Len(p) |->
        IF q = j + 1 /\ p[i + 1] \in {1, 2} THEN GainZ(p[j + 1]) ELSE p[q]]

\* _apply_cz(p, i, j)
ApplyCZ(p, i, j) ==
    LET op_i == p[i + 1]
        op_j == p[j + 1]
    IN [q \in 1..Len(p) |->
          IF q = j + 1 /\ op_i \in {1, 2} THEN GainZ(op_j)
          ELSE IF q = i + 1 /\ op_j \in {1, 2} THEN GainZ(op_i)
          ELSE p[q]]

\* A circuit operation is <<name, targets>>
ApplyGate(p, g) ==
    IF g[1] = "H" THEN ApplyH(p, g[2][1])
    ELSE IF g[1] = "S" THEN ApplyS(p, g[2][1])
    ELSE IF g[1] = "S_DAG" THEN ApplySDag(p, g[2][1])
    ELSE IF g[1] = "SWAP" THEN ApplySwap(p, g[2][1], g[2][2])
    ELSE IF g[1] = "CX" THEN ApplyCX(p, g[2][1], g[2][2])
    ELSE ApplyCZ(p, g[2][1], g[2][2])

\* circuit.append(g) followed by the loop over j that applies g to every
\* current stabilizer and destabilizer
Emit(st, g) ==
    [stabs |-> [j \in 1..Len(st.stabs) |-> ApplyGate(st.stabs[j], g)],
     destabs |-> [j \in 1..Len(st.destabs) |-> ApplyGate(st.destabs[j], g)],
     circuit |-> Append(st.circuit, g)]

\* lines 563-580: the first qubit with X or Y in destab[i], else the first
\* with Z, which gets an H
FindTarget(st, i, n) ==
    LET d == st.destabs[i + 1]
        xy == {q \in 0..(n - 1) : d[q + 1] \in {1, 2}}
        zq == {q \in 0..(n - 1) : d[q + 1] = 3}
    IN IF xy # {} THEN [st |-> st, none |-> FALSE, target_qubit |-> Min(xy)]
       ELSE IF zq # {}
            THEN [st |-> Emit(st, <<"H", <<Min(zq)>>>>), none |-> FALSE, target_qubit |-> Min(zq)]
       ELSE [st |-> st, none |-> TRUE, target_qubit |-> 0]

\* The builder without the SWAP of lines 582-587
SwapToDiagonalSkipped(t, i) == t.st

\* lines 582-587
SwapToDiagonal(t, i) ==
    IF ~t.none /\ t.target_qubit # i
    THEN Emit(t.st, <<"SWAP", <<i, t.target_qubit>>>>)
    ELSE t.st

\* lines 592-602
MakePureX(st, i) ==
    LET op_i == st.destabs[i + 1][i + 1]
    IN IF op_i = 2 THEN Emit(st, <<"S_DAG", <<i>>>>)
       ELSE IF op_i = 3 THEN Emit(st, <<"H", <<i>>>>)
       ELSE st

\* lines 605-632: for q in range(n), from the given q on
RECURSIVE ClearOthers(_, _, _, _)
ClearOthers(st, i, q, n) ==
    IF q >= n THEN st
    ELSE IF q = i THEN ClearOthers(st, i, q + 1, n)
    ELSE LET op_q == st.destabs[i + 1][q + 1]
         IN IF op_q = 1 THEN ClearOthers(Emit(st, <<"CX", <<i, q>>>>), i, q + 1, n)
            ELSE IF op_q = 3 THEN ClearOthers(Emit(st, <<"CZ", <<i, q>>>>), i, q + 1, n)
            ELSE IF op_q = 2
                 THEN ClearOthers(
                        Emit(Emit(Emit(st, <<"S_DAG", <<q>>>>), <<"CX", <<i, q>>>>), <<"S", <<q>>>>),
                        i, q + 1, n)
            ELSE ClearOthers(st, i, q + 1, n)

\* lines 560-632: one pass of the loop over i
DiagonalizeGenerator(st, i, n) ==
    LET swapped == SwapToDiagonal(FindTarget(st, i, n), i)
    IN IF i < n THEN ClearOthers(MakePureX(swapped, i), i, 0, n) ELSE swapped

RECURSIVE ApplyCircuit(_, _, _)
ApplyCircuit(p, circ, k) ==
    IF k > Len(circ) THEN p
    ELSE ApplyCircuit(ApplyGate(p, circ[k]), circ, k + 1)

\* circuit.to_tableau() of the native library: a tableau on as many qubits
\* as the circuit touches (largest target + 1), whose outputs are the
\* generators conjugated by the operations in order
CircuitToTableau(circ) ==
    LET used == UNION {{circ[k][2][t] : t \in 1..Len(circ[k][2])} : k \in 1..Len(circ)}
        w == IF used = {} THEN 0 ELSE Max(used) + 1
    IN [xs |-> [q \in 1..w |-> ApplyCircuit(PauliOn(w, <<q - 1>>, <<1>>), circ, 1)],
        zs |-> [q \in 1..w |-> ApplyCircuit(PauliOn(w, <<q - 1>>, <<3>>), circ, 1)]]

\* term extended to the length of the Pauli
Extended(term, len) ==
    IF Len(term) < len THEN [i \in 1..len |-> IF i <= Len(term) THEN term[i] ELSE 0]
    ELSE term

\* _conjugate_pauli(pauli, tableau), the loop from qubit q (1-based here) on
RECURSIVE ConjugateFrom(_, _, _, _)
ConjugateFrom(result, pauli, T, q) ==
    IF q > Min({Len(pauli), Len(T.xs)}) THEN result
    ELSE LET term_x == Extended(T.xs[q], Len(pauli))
             term_z == Extended(T.zs[q], Len(pauli))
             next == IF pauli[q] = 1 THEN MulOps(result, term_x)
                     ELSE IF pauli[q] = 3 THEN MulOps(result, term_z)
                     ELSE IF pauli[q] = 2 THEN MulOps(result, MulOps(term_x, term_z))
                     ELSE result
         IN ConjugateFrom(next, pauli, T, q + 1)

ConjugatePauli(pauli, T) == ConjugateFrom(PauliString(Len(pauli)), pauli, T, 1)

\* canonicalize_sparse_pauli(pauli_spec): the tokens sorted by index
RECURSIVE SortedTokens(_, _)
SortedTokens(tokens, from) ==
    LET rest == {i \in DOMAIN tokens : i >= from}
    IN IF rest = {} THEN <<>>
       ELSE << <<tokens[Min(rest)], Min(rest)>> >> \o SortedTokens(tokens, Min(rest) + 1)

CanonicalizeSparsePauli(spec) == SortedTokens(ParseTokens(spec).tokens, 0)

\* lines 70-78: num_qubits inferred from the tokens that look like X<i>
InferredQubits(stabilizers) ==
    LET idx == UNION {{stabilizers[s][t][2] : t \in {u \in 1..Len(stabilizers[s]) :
                          /\ stabilizers[s][u][1] \in {"X", "Y", "Z"}
                          /\ stabilizers[s][u][2] \in Nat}} : s \in 1..Len(stabilizers)}
    IN IF idx = {} THEN 0 ELSE Max(idx) + 1

\* lines 69-93: infer n, parse, check the number of generators
ParseStabilizers ==
    /\ can_pc = "call"
    /\ LET n == IF can_in.given THEN can_in.num_qubits ELSE InferredQubits(can_in.stabilizers)
           ps == [i \in 1..Len(can_in.stabilizers) |->
                    ParseSparsePauli(can_in.stabilizers[i], n)]
           k == Len(ps)
           bad == \/ n = 0
                  \/ \E i \in 1..k : ps[i].err # None
                  \/ k = 0
                  \/ k > n
       IN IF bad
          THEN /\ can_pc' = "raised"
               /\ can_out' = Raised("ValueError")
               /\ UNCHANGED <<n_can, stab_stim>>
          ELSE /\ can_pc' = "destabilizers"
               /\ n_can' = n
               /\ stab_stim' = [i \in 1..k |-> ps[i].p]
               /\ UNCHANGED can_out
    /\ UNCHANGED <<can_in, destab_vecs, destab_stim, logical_x_stim, logical_z_stim,
                   current_stabs, current_destabs, circuit, i_loop>>
    /\ UNCHANGED <<syn_vars, cls_vars, fn_vars>>

\* lines 159-230: the destabilizer of stabilizer i
FindDestabilizer ==
    /\ can_pc = "destabilizers"
    /\ i_loop < Len(stab_stim)
    /\ \E r \in {DestabilizerFor(i_loop + 1,
                                   [j \in 1..Len(stab_stim) |-> SympVec(stab_stim[j], n_can)],
                                   destab_vecs, n_can)} :
          IF r.found
          THEN /\ destab_vecs' = Append(destab_vecs, r.v)
               /\ i_loop' = i_loop + 1
               /\ UNCHANGED <<can_pc, can_out>>
          ELSE /\ can_pc' = "raised"
               /\ can_out' = Raised("ValueError")
               /\ UNCHANGED <<destab_vecs, i_loop>>
    /\ UNCHANGED <<can_in, n_can, stab_stim, destab_stim, logical_x_stim, logical_z_stim,
                   current_stabs, current_destabs, circuit>>
    /\ UNCHANGED <<syn_vars, cls_vars, fn_vars>>

\* lines 232-536 and 556-557: the logical operators, the conversion to
\* PauliStrings, and the working copies of _build_diagonalizing_circuit
FindLogicals ==
    /\ can_pc = "destabilizers"
    /\ i_loop = Len(stab_stim)
    /\ LET k == Len(stab_stim)
           Sv == [j \in 1..k |-> SympVec(stab_stim[j], n_can)]
           ds == [j \in 1..k |-> VecToPauli(destab_vecs[j])]
       IN /\ destab_stim' = ds
          /\ \E found \in {LogicalSearch(Sv, destab_vecs, n_can, <<>>, <<>>, n_can - k)} :
             \E padded \in {PadLogicals(Sv, destab_vecs, n_can, k, found.lx, found.lz)} :
                /\ logical_x_stim' = [j \in 1..Len(padded.lx) |-> VecToPauli(padded.lx[j])]
                /\ logical_z_stim' = [j \in 1..Len(padded.lz) |-> VecToPauli(padded.lz[j])]
          /\ current_stabs' = stab_stim
          /\ current_destabs' = ds
    /\ circuit' = <<>>
    /\ i_loop' = 0
    /\ can_pc' = "circuit"
    /\ UNCHANGED <<can_in, n_can, stab_stim, destab_vecs, can_out>>
    /\ UNCHANGED <<syn_vars, cls_vars, fn_vars>>

\* lines 559-632: the gates for generator i
DiagonalizeNext ==
    /\ can_pc = "circuit"
    /\ i_loop < Len(stab_stim)
    /\ \E st \in {DiagonalizeGenerator(
                    [stabs |-> current_stabs, destabs |-> current_destabs, circuit |-> circuit],
                    i_loop, n_can)} :
          /\ current_stabs' = st.stabs
          /\ current_destabs' = st.destabs
          /\ circuit' = st.circuit
    /\ i_loop' = i_loop + 1
    /\ UNCHANGED <<can_in, can_pc, n_can, stab_stim, destab_vecs, destab_stim,
                   logical_x_stim, logical_z_stim, can_out>>
    /\ UNCHANGED <<syn_vars, cls_vars, fn_vars>>

\* lines 98-129 with the native library: the tableau of the circuit, the
\* conjugated generators, the returned dict
ConjugateAndReturn ==
    /\ can_pc = "circuit"
    /\ i_loop = Len(stab_stim)
    /\ \E T \in {CircuitToTableau(circuit)} :
       LET k == Len(stab_stim)
       IN can_out' =
            [status |-> "returned",
             num_qubits |-> n_can,
             num_stabilizers |-> k,
             num_logical |-> n_can - k,
             stabilizers_sparse |->
                [j \in 1..k |-> CanonicalizeSparsePauli(can_in.stabilizers[j])],
             destabilizers_sparse |-> [j \in 1..k |-> PaulistringToSparse(destab_stim[j])],
             logical_x_sparse |->
                [j \in 1..Len(logical_x_stim) |-> PaulistringToSparse(logical_x_stim[j])],
             logical_z_sparse |->
                [j \in 1..Len(logical_z_stim) |-> PaulistringToSparse(logical_z_stim[j])],
             clifford_tableau |-> T,
             clifford_circuit |-> circuit,
             diagonalized_stabilizers |->
                [j \in 1..k |-> PaulistringToSparse(ConjugatePauli(stab_stim[j], T))],
             diagonalized_destabilizers |->
                [j \in 1..k |-> PaulistringToSparse(ConjugatePauli(destab_stim[j], T))]]
    /\ can_pc' = "returned"
    /\ UNCHANGED <<can_in, n_can, stab_stim, destab_vecs, destab_stim, logical_x_stim,
                   logical_z_stim, current_stabs, current_destabs, circuit, i_loop>>
    /\ UNCHANGED <<syn_vars, cls_vars, fn_vars>>

\* line 107 with the stub of stim_stub.py: its Circuit has no to_tableau
ToTableauMissing ==
    /\ can_pc = "circuit"
    /\ i_loop = Len(stab_stim)
    /\ can_pc' = "raised"
    /\ can_out' = Raised("AttributeError")
    /\ UNCHANGED <<can_in, n_can, stab_stim, destab_vecs, destab_stim, logical_x_stim,
                   logical_z_stim, current_stabs, current_destabs, circuit, i_loop>>
    /\ UNCHANGED <<syn_vars, cls_vars, fn_vars>>

\* ---------------------------------------------- canonicalization arguments
\* Every list of up to MaxStabs Paulis on CanQubits qubits, commuting and
\* independent or not, with num_qubits omitted, or given and smaller or
\* larger than the inferred one
StabilizerListCall(in) ==
    \E m \in 0..MaxStabs : \E gl \in [1..m -> PaulisOn(CanQubits)] :
        LET stabs == [i \in 1..m |-> PaulistringToSparse(gl[i])]
        IN \/ in = [stabilizers |-> stabs, given |-> FALSE, num_qubits |-> 0]
           \/ \E k \in 0..CanQubits :
                 /\ k # InferredQubits(stabs)
                 /\ in = [stabilizers |-> stabs, given |-> TRUE, num_qubits |-> k]

\* Calls with FullStabs generators made of X and identity only, num_qubits
\* inferred
XTypeListCall(in) ==
    \E gl \in [1..FullStabs -> [1..CanQubits -> {0, 1}]] :
        in = [stabilizers |-> [i \in 1..FullStabs |-> PaulistringToSparse(gl[i])],
              given |-> FALSE, num_qubits |-> 0]

CanInit ==
    /\ \/ StabilizerListCall(can_in)
       \/ XTypeListCall(can_in)
    /\ can_pc = "call"
    /\ n_can = 0
    /\ stab_stim = <<>>
    /\ destab_vecs = <<>>
    /\ destab_stim = <<>>
    /\ logical_x_stim = <<>>
    /\ logical_z_stim = <<>>
    /\ current_stabs = <<>>
    /\ current_destabs = <<>>
    /\ circuit = <<>>
    /\ i_loop = 0
    /\ can_out = Running
    /\ SynIdle
    /\ ClsIdle
    /\ FnIdle

CanNext ==
    \/ ParseStabilizers
    \/ FindDestabilizer
    \/ FindLogicals
    \/ DiagonalizeNext
    \/ ConjugateAndReturn
    \/ ToTableauMissing

SpecCan == CanInit /\ [][CanNext]_vars

\* ------------------------------------------------- sparse Pauli strings
\* A string is the sequence of its characters.
Digits == <<"0", "1", "2", "3", "4", "5", "6", "7", "8", "9">>

IsDigit(c) == \E d \in 1..10 : Digits[d] = c

\* str.isdigit(): at least one character, all of them digits
IsDigitString(str) == str # <<>> /\ \A i \in 1..Len(str) : IsDigit(str[i])

\* int(idx_str)
RECURSIVE IntOf(_)
IntOf(str) ==
    IF str = <<>> THEN 0
    ELSE 10 * IntOf(SubSeq(str, 1, Len(str) - 1))
            + (CHOOSE d \in 1..10 : Digits[d] = str[Len(str)]) - 1

\* The decimal digits of k that keep only the last one
StrOfLastDigit(k) == <<Digits[(k % 10) + 1]>>

\* f"{idx}": the decimal digits of k
RECURSIVE StrOf(_)
StrOf(k) ==
    IF k < 10 THEN <<Digits[k + 1]>>
    ELSE StrOf(k \div 10) \o <<Digits[(k % 10) + 1]>>

\* tok[0].upper()
Upper(c) ==
    IF c = "x" THEN "X" ELSE IF c = "y" THEN "Y" ELSE IF c = "z" THEN "Z"
    ELSE IF c = "q" THEN "Q" ELSE c

\* str.split(): the maximal runs of non-blank characters
RECURSIVE SplitFrom(_, _, _)
SplitFrom(str, i, cur) ==
    IF i > Len(str) THEN (IF cur = <<>> THEN <<>> ELSE <<cur>>)
    ELSE IF str[i] = " "
         THEN (IF cur = <<>> THEN <<>> ELSE <<cur>>) \o SplitFrom(str, i + 1, <<>>)
         ELSE SplitFrom(str, i + 1, Append(cur, str[i]))

\* raw_tokens = pauli_spec.replace("*", " ").split()
RawTokens(str) ==
    SplitFrom([i \in 1..Len(str) |-> IF str[i] = "*" THEN " " ELSE str[i]], 1, <<>>)

\* op = tok[0].upper(); idx_str = tok[1:]; idx = int(idx_str), -1 standing
\* for an idx_str that is not isdigit()
LexToken(tok) ==
    <<Upper(tok[1]), IF IsDigitString(Tail(tok)) THEN IntOf(Tail(tok)) ELSE -1>>

\* The (op, idx) tokens of a string, in the order they are written
LexSparse(str) == [k \in 1..Len(RawTokens(str)) |-> LexToken(RawTokens(str)[k])]

\* " ".join(sorted_tokens)
RECURSIVE JoinSpace(_)
JoinSpace(strs) ==
    IF strs = <<>> THEN <<>>
    ELSE IF Len(strs) = 1 THEN strs[1]
    ELSE strs[1] \o <<" ">> \o JoinSpace(Tail(strs))

\* canonicalize_sparse_pauli(pauli_spec) on the string, each token
\* rendered as f"{op}{idx}"
CanonicalizeString(str) ==
    LET t == ParseTokens(LexSparse(str))
        sorted == SortedTokens(t.tokens, 0)
    IN IF t.err # None THEN [err |-> "ValueError", text |-> <<>>]
       ELSE [err |-> None,
             text |-> JoinSpace([k \in 1..Len(sorted) |-> <<sorted[k][1]>> \o StrOf(sorted[k][2])])]

\* parse_sparse_pauli(pauli_spec, num_qubits) on the string, num_qubits
\* optional
ParseSparseString(str, given, num_qubits) ==
    LET t == ParseTokens(LexSparse(str))
        max_idx == IF DOMAIN t.tokens = {} THEN -1 ELSE Max(DOMAIN t.tokens)
    IN IF t.err # None THEN [err |-> "ValueError", p |-> <<>>]
       ELSE IF DOMAIN t.tokens = {} /\ ~given THEN [err |-> None, p |-> PauliString(0)]
       ELSE ParseSparsePauli(LexSparse(str), IF given THEN num_qubits ELSE max_idx + 1)

\* ------------------------------------------------ helper calls: the steps
\* canonicalize_sparse_pauli(text)
CanonicalizeCall ==
    /\ fn_pc = "call"
    /\ fn_in.op = "canonicalize"
    /\ \E r \in {CanonicalizeString(fn_in.text)} :
          IF r.err # None
          THEN /\ fn_pc' = "raised"
               /\ fn_out' = Raised(r.err)
          ELSE /\ fn_pc' = "returned"
               /\ fn_out' = [status |-> "returned", text |-> r.text]
    /\ UNCHANGED <<fn_in, fn_args>>
    /\ UNCHANGED <<syn_vars, cls_vars, can_vars>>

\* parse_sparse_pauli(text, num_qubits)
ParseCall ==
    /\ fn_pc = "call"
    /\ fn_in.op = "parse"
    /\ \E r \in {ParseSparseString(fn_in.text, fn_in.given, fn_in.num_qubits)} :
          IF r.err # None
          THEN /\ fn_pc' = "raised"
               /\ fn_out' = Raised(r.err)
          ELSE /\ fn_pc' = "returned"
               /\ fn_out' = [status |-> "returned", p |-> r.p]
    /\ UNCHANGED <<fn_in, fn_args>>
    /\ UNCHANGED <<syn_vars, cls_vars, can_vars>>

\* a.commutes(b), b.commutes(a), and _symp_commutes on their vectors
CommutesCall ==
    /\ fn_pc = "call"
    /\ fn_in.op = "commutes"
    /\ fn_pc' = "returned"
    /\ LET n == Max({Len(fn_in.a), Len(fn_in.b)})
       IN fn_out' = [status |-> "returned",
                     ab |-> Commutes(fn_in.a, fn_in.b),
                     ba |-> Commutes(fn_in.b, fn_in.a),
                     symp |-> SympCommutes(ToSymp(fn_in.a, n), ToSymp(fn_in.b, n), n)]
    /\ UNCHANGED <<fn_in, fn_args>>
    /\ UNCHANGED <<syn_vars, cls_vars, can_vars>>

\* a * b for PauliStrings a, b with signs sa, sb: the opcodes, and the sign
\* self.sign * other.sign * phase, phase being the product of the second
\* components of combo over the qubits (-1 for (Z,X), (Y,X), (Z,Y))
MulCall ==
    /\ fn_pc = "call"
    /\ fn_in.op = "mul"
    /\ fn_pc' = "returned"
    /\ LET a == fn_in.a
           b == fn_in.b
           minus == {i \in 1..Min({Len(a), Len(b)}) :
                        <<a[i], b[i]>> \in {<<3, 1>>, <<2, 1>>, <<3, 2>>}}
           phase == IF Cardinality(minus) % 2 = 0 THEN 1 ELSE -1
       IN fn_out' = [status |-> "returned",
                     ops |-> MulOps(a, b),
                     sign |-> fn_in.sa * fn_in.sb * phase]
    /\ UNCHANGED <<fn_in, fn_args>>
    /\ UNCHANGED <<syn_vars, cls_vars, can_vars>>

\* gf2_rowspan_decompose(S, p): lines 130-131 copy S and p, the elimination
\* and the reduction work on the copies
DecomposeCall ==
    /\ fn_pc = "call"
    /\ fn_in.op = "decompose"
    /\ fn_pc' = "returned"
    /\ \E r \in {GF2RowspanDecompose(fn_args.S, fn_args.p)} :
          fn_out' = [status |-> "returned", in_span |-> r.in_span, coeffs |-> r.coeffs]
    /\ UNCHANGED <<fn_in, fn_args>>
    /\ UNCHANGED <<syn_vars, cls_vars, can_vars>>

\* _gf2_solve(A, b): lines 91-92 copy A and b
SolveCall ==
    /\ fn_pc = "call"
    /\ fn_in.op = "solve"
    /\ fn_pc' = "returned"
    /\ \E r \in {GF2Solve(fn_args.S, fn_args.p)} :
          fn_out' = [status |-> "returned", none |-> r.none, x |-> r.x]
    /\ UNCHANGED <<fn_in, fn_args>>
    /\ UNCHANGED <<syn_vars, cls_vars, can_vars>>

\* _build_diagonalizing_circuit(stabilizers, destabilizers, num_qubits), one
\* pass of the loop over i (lines 559-632); fn_args holds current_stabs,
\* current_destabs, the circuit and i
BuildStep ==
    /\ fn_pc = "call"
    /\ fn_in.op = "build"
    /\ fn_args.i < Len(fn_in.stabilizers)
    /\ \E st \in {DiagonalizeGenerator(
                    [stabs |-> fn_args.stabs, destabs |-> fn_args.destabs,
                     circuit |-> fn_args.circuit],
                    fn_args.i, fn_in.num_qubits)} :
          fn_args' = [stabs |-> st.stabs, destabs |-> st.destabs, circuit |-> st.circuit,
                      i |-> fn_args.i + 1]
    /\ UNCHANGED <<fn_in, fn_pc, fn_out>>
    /\ UNCHANGED <<syn_vars, cls_vars, can_vars>>

\* line 634: return circuit
BuildReturn ==
    /\ fn_pc = "call"
    /\ fn_in.op = "build"
    /\ fn_args.i = Len(fn_in.stabilizers)
    /\ fn_pc' = "returned"
    /\ fn_out' = [status |-> "returned", circuit |-> fn_args.circuit]
    /\ UNCHANGED <<fn_in, fn_args>>
    /\ UNCHANGED <<syn_vars, cls_vars, can_vars>>

\* ------------------------------------------ CZ updates (qcmain0, qcmain1)
\* A Pauli string of the native library is [ops, phase]: its sign is i^phase.
\* The phase of the product of two single-qubit operators:
\* XY = iZ, YZ = iX, ZX = iY and the opposite orders carry -i
NativePhase(a, b) ==
    IF a = 0 \/ b = 0 \/ a = b THEN 0
    ELSE IF <<a, b>> \in {<<1, 2>>, <<2, 3>>, <<3, 1>>} THEN 1
    ELSE 3

\* new_stab * z_op of the native library, on operands of equal length
NativeMul(p, q) ==
    LET plus == Cardinality({i \in 1..Len(p.ops) : NativePhase(p.ops[i], q.ops[i]) = 1})
        minus == Cardinality({i \in 1..Len(p.ops) : NativePhase(p.ops[i], q.ops[i]) = 3})
    IN [ops |-> MulOps(p.ops, q.ops),
        phase |-> (p.phase + q.phase + plus + 3 * minus) % 4]

\* str(p) of the native library: the sign "+", "-", "+i" or "-i", then one
\* character per qubit, "_" for the identity
NativeStr(p) ==
    (IF p.phase = 0 THEN <<"+">>
     ELSE IF p.phase = 2 THEN <<"-">>
     ELSE IF p.phase = 1 THEN <<"+", "i">>
     ELSE <<"-", "i">>)
    \o [i \in 1..Len(p.ops) |-> IF p.ops[i] = 0 THEN "_" ELSE OpChar(p.ops[i])]

\* z_op = stim.PauliString(n); z_op[q] = 'Z'
ZOp(n, q) == [ops |-> SingleQubitPauli(n, q, 3), phase |-> 0]

\* qcmain1 lines 211-226: one stabilizer under one gate (q1, q2); the
\* characters are read from str(new_stab) at positions q1 and q2
StabilizerAfterCZ(stab, q1, q2, n) ==
    LET stab_str == NativeStr(stab)
        first == IF q1 < Len(stab_str) /\ stab_str[q1 + 1] \in {"X", "Y"}
                 THEN NativeMul(stab, ZOp(n, q2)) ELSE stab
    IN IF q2 < Len(stab_str) /\ stab_str[q2 + 1] \in {"X", "Y"}
       THEN NativeMul(first, ZOp(n, q1)) ELSE first

\* qcmain0.conjugate_by_cz(p, a, b): a leading "+" or "-" of str(p) is
\* dropped before the characters are read
ConjugateByCZ(p, a, b) ==
    LET n == Len(p.ops)
        str == NativeStr(p)
        s == IF str # <<>> /\ str[1] \in {"+", "-"} THEN Tail(str) ELSE str
        first == IF a < Len(s) /\ s[a + 1] \in {"X", "Y"}
                 THEN NativeMul(p, ZOp(n, b)) ELSE p
    IN IF b < Len(s) /\ s[b + 1] \in {"X", "Y"}
       THEN NativeMul(first, ZOp(n, a)) ELSE first

\* qcmain0.conjugate_by_cz_circuit(p, cz_edges), from edge k on
RECURSIVE ConjugateByCZCircuit(_, _, _)
ConjugateByCZCircuit(p, cz_edges, k) ==
    IF k > Len(cz_edges) THEN p
    ELSE ConjugateByCZCircuit(ConjugateByCZ(p, cz_edges[k][1], cz_edges[k][2]),
                              cz_edges, k + 1)

\* qcmain0.update_generators_under_cz(generators, cz_edges)
UpdateGeneratorsUnderCZ(generators, cz_edges) ==
    [g \in 1..Len(generators) |-> ConjugateByCZCircuit(generators[g], cz_edges, 1)]

\* qcmain1 line 192: stim.Tableau(system.total_qubits). The bundled
\* stim_stub.Tableau takes xs and zs, so with it the call fails
UpdateTableauRaises ==
    /\ fn_pc = "call"
    /\ fn_in.op = "update_cz"
    /\ fn_in.library = "stim_stub"
    /\ fn_pc' = "raised"
    /\ fn_out' = [status |-> "raised", error |-> "TypeError"]
    /\ UNCHANGED <<fn_in, fn_args>>
    /\ UNCHANGED <<syn_vars, cls_vars, can_vars>>

\* qcmain1 lines 200-229: one pass of "for q1, q2 in cz_gates"
UpdateGate ==
    /\ fn_pc = "call"
    /\ fn_in.op = "update_cz"
    /\ fn_in.library = "stim"
    /\ fn_args.g < Len(fn_in.cz_gates)
    /\ LET gate == fn_in.cz_gates[fn_args.g + 1]
       IN fn_args' = [current_stabilizers |->
                         [j \in 1..Len(fn_args.current_stabilizers) |->
                             StabilizerAfterCZ(fn_args.current_stabilizers[j],
                                               gate[1], gate[2], fn_in.total_qubits)],
                      g |-> fn_args.g + 1]
    /\ UNCHANGED <<fn_in, fn_pc, fn_out>>
    /\ UNCHANGED <<syn_vars, cls_vars, can_vars>>

\* qcmain1 line 231: return current_stabilizers
UpdateReturn ==
    /\ fn_pc = "call"
    /\ fn_in.op = "update_cz"
    /\ fn_in.library = "stim"
    /\ fn_args.g = Len(fn_in.cz_gates)
    /\ fn_pc' = "returned"
    /\ fn_out' = [status |-> "returned", stabilizers |-> fn_args.current_stabilizers]
    /\ UNCHANGED <<fn_in, fn_args>>
    /\ UNCHANGED <<syn_vars, cls_vars, can_vars>>

\* -------------------------------------------- helper calls: the arguments
\* Raw tokens the strings are made of: well-formed ones (upper and lower
\* case, a leading zero, a two-digit index), one without index, one with an
\* unknown operator
TokenPool ==
    { <<"X", "0">>, <<"z", "0">>, <<"Y", "2">>, <<"X", "1", "0">>, <<"Y", "0", "2">>,
      <<"X">>, <<"Q", "1">> }

\* The strings of k tokens, two tokens separated by " " or by "* "
RECURSIVE TextsOf(_)
TextsOf(k) ==
    IF k = 0 THEN { <<>> }
    ELSE IF k = 1 THEN TokenPool
    ELSE {t \o sep \o rest : t \in TokenPool, sep \in { <<" ">>, <<"*", " ">> },
                               rest \in TextsOf(k - 1)}

\* Values of num_qubits the parser is called with
NumQubitsChoices == {0, 1, 3, 11}

FnCallStart ==
    /\ fn_pc = "call"
    /\ fn_out = [status |-> "running"]
    /\ SynIdle
    /\ ClsIdle
    /\ CanIdle

\* The strings of up to MaxTokens tokens, canonicalized or parsed
ParseInit ==
    /\ \E text \in UNION {TextsOf(k) : k \in 0..MaxTokens} :
          \/ fn_in = [op |-> "canonicalize", text |-> text, given |-> FALSE, num_qubits |-> 0]
          \/ fn_in = [op |-> "parse", text |-> text, given |-> FALSE, num_qubits |-> 0]
          \/ \E n \in NumQubitsChoices :
                fn_in = [op |-> "parse", text |-> text, given |-> TRUE, num_qubits |-> n]
    /\ fn_args = <<>>
    /\ FnCallStart

ParseNext ==
    \/ CanonicalizeCall
    \/ ParseCall

SpecParse == ParseInit /\ [][ParseNext]_vars

\* PauliStrings of every length up to PauliLen, of either sign, compared
\* or multiplied
CommutesInit ==
    /\ \E la, lb \in 0..PauliLen : \E a \in PaulisOn(la) : \E b \in PaulisOn(lb) :
          \/ fn_in = [op |-> "commutes", a |-> a, b |-> b]
          \/ \E sa, sb \in {1, -1} :
                fn_in = [op |-> "mul", a |-> a, b |-> b, sa |-> sa, sb |-> sb]
    /\ fn_args = <<>>
    /\ FnCallStart

CommutesNext ==
    \/ CommutesCall
    \/ MulCall

SpecCommutes == CommutesInit /\ [][CommutesNext]_vars

\* Bit matrices of up to MaxRows rows and MaxCols columns, with a vector of
\* the same width to decompose, or with a right-hand side of one bit per
\* row to solve for
DecomposeInit ==
    /\ \E m \in 0..MaxRows : \E d \in 1..MaxCols :
          \E Sm \in [1..m -> [1..d -> {0, 1}]] :
              \/ \E p \in [1..d -> {0, 1}] :
                    /\ fn_in = [op |-> "decompose", S |-> Sm, p |-> p]
                    /\ fn_args = [S |-> Sm, p |-> p]
              \/ \E b \in [1..m -> {0, 1}] :
                    /\ fn_in = [op |-> "solve", S |-> Sm, p |-> b]
                    /\ fn_args = [S |-> Sm, p |-> b]
    /\ FnCallStart

DecomposeNext ==
    \/ DecomposeCall
    \/ SolveCall

SpecDecompose == DecomposeInit /\ [][DecomposeNext]_vars

\* Up to MaxBuild destabilizers, any Paulis on BuildQubits qubits, each with
\* a stabilizer out of four; lines 555-557 copy both lists and start with
\* an empty circuit
BuildInit ==
    /\ \E k \in 1..MaxBuild : \E dl \in [1..k -> PaulisOn(BuildQubits)] :
          \E sl \in [1..k -> {Extended(p, BuildQubits) :
                                 p \in {<<3, 0, 0>>, <<0, 1, 0>>, <<2, 0, 3>>, <<1, 2, 3>>}}] :
              /\ fn_in = [op |-> "build", stabilizers |-> sl, destabilizers |-> dl,
                          num_qubits |-> BuildQubits]
              /\ fn_args = [stabs |-> sl, destabs |-> dl, circuit |-> <<>>, i |-> 0]
    /\ FnCallStart

BuildNext ==
    \/ BuildStep
    \/ BuildReturn

SpecBuild == BuildInit /\ [][BuildNext]_vars

\* A system of CzQubits qubits with up to MaxCzGens generators of sign +, a
\* list of up to MaxCzGates gates on distinct qubits, and the library
\* stim_import resolves to: the installed stim, or the bundled stim_stub
CzInit ==
    /\ \E library \in {"stim", "stim_stub"} :
       \E k \in 1..MaxCzGens :
       \E gl \in [1..k -> PaulisOn(CzQubits)] :
       \E m \in 0..MaxCzGates :
       \E cz \in [1..m -> {u \in (0..(CzQubits - 1)) \X (0..(CzQubits - 1)) : u[1] # u[2]}] :
          /\ \A j \in 2..k : gl[j] \in {Extended(p, CzQubits) :
                                           p \in {<<1, 1, 0>>, <<3, 2, 1>>, <<0, 3, 3>>, <<2, 0, 2>>}}
          /\ fn_in = [op |-> "update_cz", library |-> library,
                      generators |-> [j \in 1..k |-> [ops |-> gl[j], phase |-> 0]],
                      cz_gates |-> cz, total_qubits |-> CzQubits]
          /\ fn_args = [current_stabilizers |-> fn_in.generators, g |-> 0]
    /\ FnCallStart

CzNext ==
    \/ UpdateTableauRaises
    \/ UpdateGate
    \/ UpdateReturn

SpecCz == CzInit /\ [][CzNext]_vars

\* ============================================================== properties
\* The Pauli pattern a sparse string denotes on `width` qubits
PatternOf(spec, width) ==
    [i \in 1..width |->
        IF \E k \in 1..Len(spec) : spec[k][2] = i - 1
        THEN CharOp(spec[CHOOSE k \in 1..Len(spec) : spec[k][2] = i - 1][1])
        ELSE 0]

\* One more than the largest qubit index written in the pairs of a call
WidthOfPairs(pairs) ==
    LET idx == UNION {{pairs[i][1][k][2] : k \in 1..Len(pairs[i][1])}
                      \cup {pairs[i][2][k][2] : k \in 1..Len(pairs[i][2])} : i \in 1..Len(pairs)}
    IN IF idx = {} THEN 1 ELSE Max(idx) + 1

\* The supplied pairs as Pauli patterns
SuppliedPairs(in) ==
    [i \in 1..Len(in.pairs) |->
        <<PatternOf(in.pairs[i][1], WidthOfPairs(in.pairs)),
          PatternOf(in.pairs[i][2], WidthOfPairs(in.pairs))>>]

TargetsInRange ==
    \A i \in 1..Len(target_qubits) :
        target_qubits[i] >= 0 /\ target_qubits[i] < syn_in.num_qubits

\* C1: for valid pairs and distinct in-range targets q_i, the tableau returned
\* with direction pairs_to_standard maps every S_i to exactly Z on q_i and
\* every D_i to exactly X on q_i.
C1_PairsToStandard ==
    (/\ syn_pc = "returned"
     /\ syn_in.direction = "pairs_to_standard"
     /\ IsFrame(SuppliedPairs(syn_in))
     /\ TargetsInRange)
    => \A i \in 1..Len(S) :
          /\ TableauCall(syn_out.tableau, S[i])
                = SingleQubitPauli(syn_in.num_qubits, target_qubits[i], 3)
          /\ TableauCall(syn_out.tableau, D[i])
                = SingleQubitPauli(syn_in.num_qubits, target_qubits[i], 1)

\* A pairs_to_standard call returned for a supplied pair that is not already
\* in standard form, after a missing pair was searched for
C1_Witness ==
    /\ syn_pc = "returned"
    /\ syn_in.direction = "pairs_to_standard"
    /\ TargetsInRange
    /\ Len(S) = 1
    /\ searched >= 1
    /\ S[1] # SingleQubitPauli(syn_in.num_qubits, target_qubits[1], 3)

\* The completed frame reported in the diagnostics, as Pauli patterns
ReportedX(q) == PatternOf(syn_out.diagnostics.xs_sparse[q], syn_in.num_qubits)

ReportedZ(q) == PatternOf(syn_out.diagnostics.zs_sparse[q], syn_in.num_qubits)

IsSymplecticBasis(n) ==
    \A a, b \in 1..n :
        /\ Anticommute(ReportedX(a), ReportedZ(b)) <=> (a = b)
        /\ ~Anticommute(ReportedX(a), ReportedX(b))
        /\ ~Anticommute(ReportedZ(a), ReportedZ(b))

\* C2: whenever frame completion returns for a valid partial frame, the 2n
\* operators reported in xs_sparse/zs_sparse form a symplectic basis: the X
\* and Z image of the same qubit anticommute, every other pair commutes.
C2_CompletedFrameSymplectic ==
    (/\ syn_pc = "returned"
     /\ IsFrame(SuppliedPairs(syn_in))
     /\ TargetsInRange)
    => IsSymplecticBasis(syn_in.num_qubits)

\* Some supplied pair commutes, or operators of two different pairs anticommute
BreaksPattern(in) == ~IsFrame(SuppliedPairs(in))

\* C9: if a supplied pair commutes, or S_i/S_j, D_i/D_j or S_i/D_j of two
\* different pairs anticommute, the call raises ValueError before frame
\* completion starts: it never gets past validation, nothing is searched and
\* nothing is returned.
C9_InvalidFrameRejected ==
    BreaksPattern(syn_in)
    => /\ syn_pc \in {"call", "parse", "validate", "raised"}
       /\ searched = 0
       /\ syn_pc = "raised" => syn_out.error = "ValueError"

\* _validate_partial_frame raised for two pairs, each of them anticommuting,
\* that fail the pattern only across the pairs
C9_Witness ==
    /\ syn_pc = "raised"
    /\ Len(S) = 2
    /\ syn_out.error = "ValueError"
    /\ BreaksPattern(syn_in)
    /\ \A i \in 1..2 : Anticommute(S[i], D[i])

\* The argument errors C10 lists
BadArguments(in) ==
    \/ in.num_qubits <= 0
    \/ in.direction \notin {"pairs_to_standard", "standard_to_pairs"}
    \/ Len(ResolvedTargets(in)) # Len(in.pairs)
    \/ \E i, j \in 1..Len(ResolvedTargets(in)) :
          i # j /\ ResolvedTargets(in)[i] = ResolvedTargets(in)[j]
    \/ in.completion # "search"

\* C10: the call raises ValueError, before any candidate enumeration or search
\* step, when num_qubits <= 0, the direction is unknown, target_qubits has the
\* wrong length or repeats a qubit, or completion is not 'search'.
C10_BadArgumentsValueError ==
    BadArguments(syn_in)
    => /\ syn_pc \notin {"loop", "returned"}
       /\ searched = 0
       /\ syn_pc = "raised" => syn_out.error = "ValueError"

\* ------------------------------------------------ classifier properties
\* One more than the largest qubit index written in a list of sparse strings
WidthOf(specs) ==
    LET idx == UNION {{specs[k][t][2] : t \in 1..Len(specs[k])} : k \in 1..Len(specs)}
    IN IF idx = {} THEN 0 ELSE Max(idx) + 1

\* The Pauli patterns the sparse strings of a list denote, on a common width
PatternsOf(specs) == [k \in 1..Len(specs) |-> PatternOf(specs[k], WidthOf(specs))]

HasX(op) == op \in {1, 2}

HasZ(op) == op \in {2, 3}

\* Pattern c is, up to phase, the product of the patterns G[i], i in T
IsProductOf(G, T, c) ==
    \A q \in 1..Len(c) :
        /\ HasX(c[q]) <=> Cardinality({i \in T : HasX(G[i][q])}) % 2 = 1
        /\ HasZ(c[q]) <=> Cardinality({i \in T : HasZ(G[i][q])}) % 2 = 1

\* The patterns of G, on w qubits, commute pairwise and no product of some
\* of them is the identity
CommutingIndependent(G, w) ==
    /\ \A i, j \in 1..Len(G) : ~Anticommute(G[i], G[j])
    /\ \A T \in SUBSET (1..Len(G)) : T # {} => ~IsProductOf(G, T, [q \in 1..w |-> 0])

ClsPatterns(in) == PatternsOf(<<in.candidate>> \o in.stabilizers)

CandidatePattern(in) == ClsPatterns(in)[1]

GeneratorPattern(in, i) == ClsPatterns(in)[i + 1]

ClsWidth(in) == WidthOf(<<in.candidate>> \o in.stabilizers)

InGeneratorSpan(in) ==
    \E T \in SUBSET (1..Len(in.stabilizers)) :
        IsProductOf(Tail(ClsPatterns(in)), T, CandidatePattern(in))

AnticommutesWithSome(in) ==
    \E i \in 1..Len(in.stabilizers) :
        Anticommute(CandidatePattern(in), GeneratorPattern(in, i))

\* The generators commute pairwise and are independent
ValidGenerators(in) == CommutingIndependent(Tail(ClsPatterns(in)), ClsWidth(in))

\* num_qubits is omitted or covers every index written
WidthFits(in) == in.given => in.num_qubits >= ClsWidth(in)

\* C3: for every candidate and every list of pairwise-commuting, independent
\* generators (the empty list included) the call returns exactly one of three
\* statuses: 'anticommuting' iff the candidate anticommutes with a generator,
\* 'stabilizer' iff it commutes with all and lies in their GF(2) span,
\* 'logical' iff it commutes with all and lies outside the span.
C3_ThreeStatuses ==
    (ValidGenerators(cls_in) /\ WidthFits(cls_in))
    => /\ cls_pc # "raised"
       /\ cls_pc = "returned" =>
            /\ cls_out.details.result \in {"anticommuting", "stabilizer", "logical"}
            /\ cls_out.details.result = "anticommuting" <=> AnticommutesWithSome(cls_in)
            /\ cls_out.details.result = "stabilizer"
                 <=> (~AnticommutesWithSome(cls_in) /\ InGeneratorSpan(cls_in))
            /\ cls_out.details.result = "logical"
                 <=> (~AnticommutesWithSome(cls_in) /\ ~InGeneratorSpan(cls_in))

\* A non-identity candidate classified 'logical' against a non-empty valid
\* generator list after the span test
C3_Witness ==
    /\ cls_pc = "returned"
    /\ ValidGenerators(cls_in)
    /\ Len(gens) >= 1
    /\ cls_in.candidate # <<>>
    /\ cls_out.details.result = "logical"

\* C4: for every pairwise-commuting, independent generator list G and every
\* index i, classifying G[i] against G returns 'stabilizer' with
\* generator_indices exactly [i].
C4_GeneratorIsItsOwnDecomposition ==
    (/\ cls_pc = "returned"
     /\ ValidGenerators(cls_in))
    => \A i \in 1..Len(cls_in.stabilizers) :
          CandidatePattern(cls_in) = GeneratorPattern(cls_in, i)
          => /\ cls_out.details.result = "stabilizer"
             /\ cls_out.details.generator_indices = <<i - 1>>

\* The second of two generators classified against the list, where the
\* elimination had to swap the two rows
C4_Witness ==
    /\ cls_pc = "returned"
    /\ ValidGenerators(cls_in)
    /\ Len(gens) = 2
    /\ p_cand = gens[2]
    /\ ~HasX(gens[1][1]) /\ HasX(gens[2][1])
    /\ cls_out.details.result = "stabilizer"

IsIdentityCandidate(in) == in.candidate = <<>>

ReportedExample ==
    ClsCall(<< <<"Z", 0>>, <<"Z", 1>>, <<"Z", 2>> >>, ReportedStabilizers, TRUE, 5)

\* C5: the call returns 'stabilizer' with an empty generator_indices list iff
\* the candidate is the identity (and then product_sparse is empty); a
\* non-identity candidate that commutes with all generators and is outside
\* their span is never reported as 'stabilizer'; Z0 Z1 Z2 against X3, X4,
\* X0 X1, X1 X2 on 5 qubits is 'logical'.
C5_EmptyDecompositionOnlyForIdentity ==
    cls_pc = "returned"
    => /\ (cls_out.details.result = "stabilizer"
              /\ cls_out.details.generator_indices = <<>>)
          <=> IsIdentityCandidate(cls_in)
       /\ IsIdentityCandidate(cls_in) => cls_out.details.product_sparse = <<>>
       /\ (/\ ~IsIdentityCandidate(cls_in)
           /\ ~AnticommutesWithSome(cls_in)
           /\ ~InGeneratorSpan(cls_in)) => cls_out.details.result # "stabilizer"
       /\ cls_in = ReportedExample => cls_out.details.result = "logical"

\* The reported example has been classified
C5_Witness ==
    /\ cls_pc = "returned"
    /\ cls_in = ReportedExample
    /\ cls_out.details.none

\* The generator indices, ascending, whose pattern anticommutes with the candidate
RECURSIVE AnticommutingAscending(_, _)
AnticommutingAscending(in, i) ==
    IF i > Len(in.stabilizers) THEN <<>>
    ELSE (IF Anticommute(CandidatePattern(in), GeneratorPattern(in, i))
          THEN <<i - 1>> ELSE <<>>) \o AnticommutingAscending(in, i + 1)

\* C6: whenever the candidate anticommutes with at least one generator the
\* call returns 'anticommuting', whether or not the candidate is in the span,
\* and anticommuting_with lists, in ascending order, every generator index
\* whose symplectic product with the candidate is 1 (generators Z0, Z1:
\* X0 gives [0], X0 X1 gives [0, 1]).
C6_AnticommutingIndices ==
    (cls_pc = "returned" /\ AnticommutesWithSome(cls_in))
    => /\ cls_out.details.result = "anticommuting"
       /\ cls_out.details.anticommuting_with = AnticommutingAscending(cls_in, 1)
       /\ cls_in.stabilizers = << << <<"Z", 0>> >>, << <<"Z", 1>> >> >> =>
            /\ cls_in.candidate = << <<"X", 0>> >>
                 => cls_out.details.anticommuting_with = <<0>>
            /\ cls_in.candidate = << <<"X", 0>>, <<"X", 1>> >>
                 => cls_out.details.anticommuting_with = <<0, 1>>

\* X0 X1 classified against Z0, Z1: both generators are reported
C6_Witness ==
    /\ cls_pc = "returned"
    /\ cls_in.stabilizers = << << <<"Z", 0>> >>, << <<"Z", 1>> >> >>
    /\ cls_in.candidate = << <<"X", 0>>, <<"X", 1>> >>
    /\ cls_out.details.result = "anticommuting"
    /\ Len(cls_out.details.anticommuting_with) = 2

\* ------------------------------------------- canonicalization properties
\* The stabilizers of the call commute pairwise and are independent
ValidStabilizers(in) ==
    CommutingIndependent(PatternsOf(in.stabilizers), WidthOf(in.stabilizers))

\* C7: for every valid stabilizer list that canonicalize_stabilizer_code
\* accepts, the diagonalizing circuit takes stabilizer i to exactly Z on
\* qubit i: diagonalized_stabilizers[i] reads "Z<i>" (["Z0 Z1", "Z1 Z2"]
\* gives ["Z0", "Z1"]).
C7_DiagonalizedStabilizers ==
    (can_pc = "returned" /\ ValidStabilizers(can_in))
    => \A i \in 1..Len(can_in.stabilizers) :
          can_out.diagonalized_stabilizers[i] = << <<"Z", i - 1>> >>

\* C8: for every valid stabilizer list that canonicalize_stabilizer_code
\* accepts, after the complete circuit every destabilizer i is exactly X on
\* qubit i: diagonalized_destabilizers[i] reads "X<i>".
C8_DiagonalizedDestabilizers ==
    (can_pc = "returned" /\ ValidStabilizers(can_in))
    => \A i \in 1..Len(can_in.stabilizers) :
          can_out.diagonalized_destabilizers[i] = << <<"X", i - 1>> >>

\* ------------------------------------------- further synthesis properties
\* Some resolved target qubit lies outside 0..num_qubits-1
TargetOutOfRange(in) ==
    \E i \in 1..Len(ResolvedTargets(in)) :
        ResolvedTargets(in)[i] < 0 \/ ResolvedTargets(in)[i] >= in.num_qubits

\* C11: if target_qubits contains an index outside 0..num_qubits-1 (negative
\* or >= num_qubits) the call fails before any computation on the frame: it
\* never reaches frame completion, searches nothing and returns nothing.
C11_OutOfRangeTargetFails ==
    TargetOutOfRange(syn_in)
    => /\ syn_pc \notin {"complete", "loop", "returned"}
       /\ searched = 0

\* C12: with direction standard_to_pairs the returned tableau is the frame
\* itself: for every supplied pair i whose target q_i is a qubit of the frame,
\* Z on q_i is mapped to S_i and X on q_i to D_i.
C12_StandardToPairs ==
    (/\ syn_pc = "returned"
     /\ syn_in.direction = "standard_to_pairs")
    => \A i \in 1..Len(S) :
          (target_qubits[i] >= 0 /\ target_qubits[i] < syn_in.num_qubits)
          => /\ TableauCall(syn_out.tableau,
                            SingleQubitPauli(syn_in.num_qubits, target_qubits[i], 3)) = S[i]
             /\ TableauCall(syn_out.tableau,
                            SingleQubitPauli(syn_in.num_qubits, target_qubits[i], 1)) = D[i]

\* The call supplies a valid partial frame: pairs that pass validation, at
\* distinct in-range target qubits of a frame of num_qubits >= 1 qubits
ValidPartialFrame(in) ==
    /\ in.num_qubits >= 1
    /\ in.max_weight_search >= 1
    /\ IsFrame(SuppliedPairs(in))
    /\ Len(ResolvedTargets(in)) = Len(in.pairs)
    /\ \A i, j \in 1..Len(ResolvedTargets(in)) :
          i # j => ResolvedTargets(in)[i] # ResolvedTargets(in)[j]
    /\ ~TargetOutOfRange(in)

\* C13: for every valid partial frame and every max_weight_search >= 1, frame
\* completion fills every missing pair and never raises the search-exhausted
\* RuntimeError, also when several qubits are completed one after another.
C13_CompletionNeverExhausted ==
    ValidPartialFrame(syn_in)
    => ~(syn_pc = "raised" /\ syn_out.error = "RuntimeError")

\* A frame entry that holds an operator
IsOperator(e) == e # NoPauli

\* Pattern p commutes with every operator already in the frame and is not,
\* up to phase, a product of some of them
Admissible(p, Ximg, Zimg) ==
    LET G == SelectSeq(Ximg \o Zimg, IsOperator)
    IN /\ \A i \in 1..Len(G) : ~Anticommute(p, G[i])
       /\ \A T \in SUBSET (1..Len(G)) : ~IsProductOf(G, T, p)

Support(p) == {i \in 1..Len(p) : p[i] # 0}

\* Operator order X < Z < Y
OpRank(op) == IF op = 1 THEN 1 ELSE IF op = 3 THEN 2 ELSE 3

\* a comes before b: lower weight, then the lexicographically smaller
\* ascending qubit tuple, then the smaller operator on the first qubit where
\* they differ
Earlier(a, b) ==
    LET sa == Support(a)
        sb == Support(b)
    IN \/ Cardinality(sa) < Cardinality(sb)
       \/ /\ Cardinality(sa) = Cardinality(sb)
          /\ sa # sb
          /\ Min((sa \ sb) \cup (sb \ sa)) \in sa
       \/ /\ sa = sb
          /\ a # b
          /\ OpRank(a[Min({i \in 1..Len(a) : a[i] # b[i]})])
                < OpRank(b[Min({i \in 1..Len(a) : a[i] # b[i]})])

\* x is the first admissible Pauli on n qubits
IsFirstAdmissible(x, Ximg, Zimg, n) ==
    /\ Support(x) # {}
    /\ Admissible(x, Ximg, Zimg)
    /\ \A p \in PaulisOn(n) :
          (Support(p) # {} /\ Admissible(p, Ximg, Zimg)) => (p = x \/ Earlier(x, p))

\* C15: for each qubit whose pair is missing, the X-image frame completion
\* stores is the first Pauli, by ascending weight, then ascending qubit tuple,
\* then operator order X < Z < Y, that commutes with every operator already
\* in the frame and is outside their span.
C15_FirstAdmissibleXImage ==
    [][(/\ syn_pc = "loop"
        /\ ValidPartialFrame(syn_in)
        /\ X_img' # X_img)
       => IsFirstAdmissible(X_img'[q_loop + 1], X_img, Z_img, syn_in.num_qubits)]_vars

\* ------------------------------------ further canonicalization properties
\* C14: for every list of k <= n pairwise-commuting, independent stabilizer
\* generators on n qubits the destabilizer search finds a destabilizer for
\* every generator: once the stabilizers are parsed and counted, the call
\* never fails with the ValueError "Could not find destabilizer".
C14_DestabilizerAlwaysFound ==
    ValidStabilizers(can_in)
    => ~(/\ can_pc = "raised"
         /\ can_out.error = "ValueError"
         /\ stab_stim # <<>>)

\* ------------------------------------------------- tableau properties
\* The tableau of the completed frame
FrameTableau == [xs |-> X_img, zs |-> Z_img]

\* Tableaus a and b map every single-qubit X and Z generator to the same
\* Pauli pattern
SameOnGenerators(a, b, n) ==
    \A q \in 0..(n - 1) : \A op \in {1, 3} :
        TableauCall(a, SingleQubitPauli(n, q, op)) = TableauCall(b, SingleQubitPauli(n, q, op))

\* C16: for the tableau T of a completed frame, T.inverse().inverse() maps
\* every single-qubit X and Z generator to the same Pauli pattern as T: both
\* inversions succeed and the second undoes the first.
C16_InverseOfInverse ==
    syn_pc = "returned"
    => LET inverse == TableauInverse(FrameTableau)
           twice == TableauInverse(inverse)
       IN /\ inverse.ok
          /\ twice.ok
          /\ SameOnGenerators(twice, FrameTableau, syn_in.num_qubits)

\* A returned inverse of a frame on two qubits, completed by the search, that
\* is not its own inverse
C16_Witness ==
    /\ syn_pc = "returned"
    /\ syn_in.direction = "pairs_to_standard"
    /\ syn_in.num_qubits = 2
    /\ searched >= 1
    /\ ~SameOnGenerators(syn_out.tableau, FrameTableau, 2)

\* ============================================ sparse string properties
\* No "*", no blank at either end, no two blanks in a row
SingleSpaced(str) ==
    /\ \A i \in 1..Len(str) : str[i] # "*"
    /\ str # <<>> => (str[1] # " " /\ str[Len(str)] # " ")
    /\ \A i \in 1..(Len(str) - 1) : ~(str[i] = " " /\ str[i + 1] = " ")

\* The raw tokens of str in the order perm, one blank between two of them
Reordered(str, perm) ==
    JoinSpace([k \in 1..Len(RawTokens(str)) |-> RawTokens(str)[perm[k]]])

\* C17: canonicalize_sparse_pauli returns the tokens of its argument sorted
\* by ascending qubit index and separated by single spaces, whatever the
\* order the argument lists them in; parsing the canonical string gives the
\* operator that parsing the argument gives, with num_qubits inferred or
\* supplied; canonicalizing the canonical string returns it unchanged.
C17_CanonicalRoundTrip ==
    (fn_in.op = "canonicalize" /\ fn_pc = "returned") =>
        LET text == fn_out.text
            toks == LexSparse(text)
            orig == LexSparse(fn_in.text)
        IN /\ SingleSpaced(text)
           /\ \A k \in 1..(Len(toks) - 1) : toks[k][2] < toks[k + 1][2]
           /\ {toks[k] : k \in 1..Len(toks)} = {orig[k] : k \in 1..Len(orig)}
           /\ \A perm \in Permutations(1..Len(orig)) :
                 CanonicalizeString(Reordered(fn_in.text, perm))
                     = [err |-> None, text |-> text]
           /\ ParseSparseString(text, FALSE, 0) = ParseSparseString(fn_in.text, FALSE, 0)
           /\ \A n \in NumQubitsChoices :
                 ParseSparseString(text, TRUE, n) = ParseSparseString(fn_in.text, TRUE, n)
           /\ CanonicalizeString(text) = [err |-> None, text |-> text]

\* A string of three tokens on three indices, not in ascending order and
\* one of them with a two-digit index, has been canonicalized
C17_Witness ==
    /\ fn_in.op = "canonicalize"
    /\ fn_pc = "returned"
    /\ Len(LexSparse(fn_out.text)) = 3
    /\ LexSparse(fn_in.text)[1][2] > LexSparse(fn_in.text)[2][2]
    /\ \E k \in 1..3 : LexSparse(fn_out.text)[k][2] >= 10
    /\ fn_out.text # fn_in.text

\* X, Y or Z in either case followed by one or more decimal digits
WellFormedToken(tok) ==
    /\ tok[1] \in {"X", "Y", "Z", "x", "y", "z"}
    /\ Len(tok) >= 2
    /\ \A i \in 2..Len(tok) : IsDigit(tok[i])

\* The qubit index a well-formed token names
TokenIndex(tok) == IntOf(Tail(tok))

\* The string has a reason to be rejected: a malformed token, one index
\* with two different operators, or an index >= the supplied num_qubits
Rejectable(str, given, num_qubits) ==
    LET raw == RawTokens(str)
    IN \/ \E k \in 1..Len(raw) : ~WellFormedToken(raw[k])
       \/ \E j, k \in 1..Len(raw) :
             /\ WellFormedToken(raw[j])
             /\ WellFormedToken(raw[k])
             /\ TokenIndex(raw[j]) = TokenIndex(raw[k])
             /\ Upper(raw[j][1]) # Upper(raw[k][1])
       \/ /\ given
          /\ \E k \in 1..Len(raw) :
                WellFormedToken(raw[k]) /\ TokenIndex(raw[k]) >= num_qubits

\* C18: parse_sparse_pauli raises ValueError, returning no operator, when a
\* token is not X/Y/Z followed by decimal digits, when one index carries two
\* different operators, or when an index is >= the supplied num_qubits; a
\* string that repeats a token on the same index with the same operator is
\* accepted and gives the operator of the string with a single occurrence.
C18_ParseErrors ==
    (fn_in.op = "parse" /\ fn_pc # "call") =>
        /\ Rejectable(fn_in.text, fn_in.given, fn_in.num_qubits)
              => (fn_pc = "raised" /\ fn_out = Raised("ValueError"))
        /\ fn_pc = "returned" =>
              \A k \in 1..Len(RawTokens(fn_in.text)) :
                  ParseSparseString(fn_in.text \o <<" ">> \o RawTokens(fn_in.text)[k],
                                    fn_in.given, fn_in.num_qubits)
                      = [err |-> None, p |-> fn_out.p]

\* A call with three well-formed tokens and num_qubits supplied, two of the
\* tokens naming one index with different operators, has raised
C18_Witness ==
    /\ fn_in.op = "parse"
    /\ fn_pc = "raised"
    /\ fn_in.given
    /\ \A k \in 1..Len(RawTokens(fn_in.text)) : WellFormedToken(RawTokens(fn_in.text)[k])
    /\ Len(RawTokens(fn_in.text)) = 3
    /\ \E j, k \in 1..3 :
          /\ j # k
          /\ TokenIndex(RawTokens(fn_in.text)[j]) = TokenIndex(RawTokens(fn_in.text)[k])
          /\ Upper(RawTokens(fn_in.text)[j][1]) # Upper(RawTokens(fn_in.text)[k][1])

\* ================================================ commutation properties
XBit(op) == IF op \in {1, 2} THEN 1 ELSE 0

ZBit(op) == IF op \in {3, 2} THEN 1 ELSE 0

\* Opcode of qubit q (1-based) of p padded with identities
Padded(p, q) == IF q <= Len(p) THEN p[q] ELSE 0

\* Sum over the qubits of (x_a z_b XOR z_a x_b), mod 2
InnerProduct(a, b) ==
    Cardinality({q \in 1..Max({Len(a), Len(b)}) :
                    XBit(Padded(a, q)) * ZBit(Padded(b, q))
                        # ZBit(Padded(a, q)) * XBit(Padded(b, q))}) % 2

\* C19: for all Pauli operators a and b, of equal or different lengths,
\* a.commutes(b) equals b.commutes(a), and it is true exactly when the
\* symplectic inner product of a and b (the shorter padded with
\* identities) is 0, which is also what _symp_commutes answers on their
\* vectors.
C19_CommutesSymmetric ==
    (fn_in.op = "commutes" /\ fn_pc = "returned") =>
        /\ fn_out.ab = fn_out.ba
        /\ fn_out.ab = (InnerProduct(fn_in.a, fn_in.b) = 0)
        /\ fn_out.symp = fn_out.ab

\* Two operators of different lengths that anticommute have been compared
C19_Witness ==
    /\ fn_in.op = "commutes"
    /\ fn_pc = "returned"
    /\ Len(fn_in.a) < Len(fn_in.b)
    /\ Len(fn_in.a) > 0
    /\ ~fn_out.ab
    /\ ~fn_out.ba

\* ================================================== row span properties
\* XOR of the rows Sm[i] with c[i] = 1, as a vector of width d
XorOfRows(Sm, c, d) ==
    [j \in 1..d |-> Cardinality({i \in 1..Len(Sm) : c[i] = 1 /\ Sm[i][j] = 1}) % 2]

\* C20: gf2_rowspan_decompose(S, p) answers in_span = True exactly when p
\* is a GF(2) combination of the rows of S (with no rows: when p is zero);
\* when it does, the XOR of the original rows S[i] with coeffs[i] = 1 is p;
\* the caller's S and p are what they were before the call.
C20_RowspanDecompose ==
    (fn_in.op = "decompose" /\ fn_pc = "returned") =>
        LET m == Len(fn_in.S)
            d == Len(fn_in.p)
        IN /\ fn_out.in_span <=>
                 \E c \in [1..m -> {0, 1}] : XorOfRows(fn_in.S, c, d) = fn_in.p
           /\ fn_out.in_span =>
                 /\ Len(fn_out.coeffs) = m
                 /\ XorOfRows(fn_in.S, fn_out.coeffs, d) = fn_in.p
           /\ fn_args = [S |-> fn_in.S, p |-> fn_in.p]

\* A vector that needs at least two of three rows, the first row not
\* among them, has been decomposed
C20_Witness ==
    /\ fn_in.op = "decompose"
    /\ fn_pc = "returned"
    /\ Len(fn_in.S) = MaxRows
    /\ fn_out.in_span
    /\ fn_out.coeffs[1] = 0
    /\ Cardinality({i \in 1..MaxRows : fn_out.coeffs[i] = 1}) >= 2
    /\ \A i \in 1..MaxRows : fn_in.S[i] # fn_in.p

\* =============================================== linear solve properties
\* A x over GF(2), one bit per row of A
TimesVector(A, x) ==
    [i \in 1..Len(A) |-> Cardinality({c \in 1..Len(x) : A[i][c] = 1 /\ x[c] = 1}) % 2]

\* Column c of A is a GF(2) combination of the columns before it: the
\* variable of such a column is free
IsFreeColumn(A, c) ==
    \E sel \in SUBSET (1..(c - 1)) :
        \A i \in 1..Len(A) : A[i][c] = Cardinality({j \in sel : A[i][j] = 1}) % 2

\* C21: _gf2_solve(A, b) returns None exactly when A x = b has no solution
\* over GF(2); otherwise it returns an x with A x = b in which every free
\* variable is 0.
C21_SolveOrNone ==
    (fn_in.op = "solve" /\ fn_pc = "returned") =>
        LET A == fn_in.S
            b == fn_in.p
            n == IF A = <<>> THEN 0 ELSE Len(A[1])
        IN /\ fn_out.none <=> ~\E x \in [1..n -> {0, 1}] : TimesVector(A, x) = b
           /\ ~fn_out.none =>
                 /\ Len(fn_out.x) = n
                 /\ TimesVector(A, fn_out.x) = b
                 /\ \A c \in 1..n : IsFreeColumn(A, c) => fn_out.x[c] = 0

\* A system of three equations with a free variable between two pivot
\* columns has been solved with both pivot variables 1
C21_Witness ==
    /\ fn_in.op = "solve"
    /\ fn_pc = "returned"
    /\ ~fn_out.none
    /\ Len(fn_in.S) = MaxRows
    /\ Len(fn_out.x) = 3
    /\ IsFreeColumn(fn_in.S, 2)
    /\ fn_out.x = <<1, 0, 1>>

\* ============================================= multiplication properties
\* C22: the product of two Pauli operators is always returned, never an
\* error; on each qubit its x and z bits are the XOR of the operands' bits,
\* the shorter operand padded with identities to the longer length; its
\* sign is +1 or -1; an operator times itself is the identity pattern.
C22_ProductIsXor ==
    (fn_in.op = "mul" /\ fn_pc # "call") =>
        LET a == fn_in.a
            b == fn_in.b
        IN /\ fn_pc = "returned"
           /\ Len(fn_out.ops) = Max({Len(a), Len(b)})
           /\ \A q \in 1..Len(fn_out.ops) :
                 /\ XBit(fn_out.ops[q]) = (XBit(Padded(a, q)) + XBit(Padded(b, q))) % 2
                 /\ ZBit(fn_out.ops[q]) = (ZBit(Padded(a, q)) + ZBit(Padded(b, q))) % 2
           /\ fn_out.sign \in {1, -1}
           /\ a = b => \A q \in 1..Len(fn_out.ops) : fn_out.ops[q] = 0

\* A shorter operator has been multiplied by a longer one, the two differing
\* on a shared qubit and the longer one acting beyond the shorter's length
C22_Witness ==
    /\ fn_in.op = "mul"
    /\ fn_pc = "returned"
    /\ Len(fn_in.a) = 1
    /\ Len(fn_in.b) = PauliLen
    /\ fn_in.a[1] = 3
    /\ fn_in.b[1] = 1
    /\ fn_in.b[PauliLen] # 0
    /\ fn_out.sign = -1 * fn_in.sa * fn_in.sb

\* ========================================== frame completion properties
\* The linear solve gives no Z partner for the X candidate x: no solution,
\* or a solution inside the span of the fixed vectors and x
SolveRejected(x, Ximg, Zimg, n) ==
    LET temp_existing == Append(ExistingVectors(Ximg, Zimg, n), SympVec(x, n))
        rhs == [k \in 1..Len(temp_existing) |-> IF k = Len(temp_existing) THEN 1 ELSE 0]
        sol == GF2Solve(temp_existing, rhs)
    IN sol.none \/ GF2RowspanDecompose(temp_existing, sol.x).in_span

\* z anticommutes with x, commutes with every operator already in the
\* frame, and is not, up to phase, a product of some of them and x
EligiblePartner(z, x, Ximg, Zimg) ==
    LET G == SelectSeq(Ximg \o Zimg, IsOperator)
    IN /\ Anticommute(z, x)
       /\ \A i \in 1..Len(G) : ~Anticommute(z, G[i])
       /\ \A T \in SUBSET (1..(Len(G) + 1)) : ~IsProductOf(Append(G, x), T, z)

\* Position in cands of the first partner eligible for x, 0 if there is none
FirstEligible(cands, x, Ximg, Zimg) ==
    FirstIn({k \in 1..Len(cands) : EligiblePartner(cands[k], x, Ximg, Zimg)})

\* Position in cands of the first X candidate that is admissible and has a
\* partner, from the linear solve or among the enumerated Paulis; 0 if none
FirstCompletable(cands, Ximg, Zimg, n) ==
    FirstIn({k \in 1..Len(cands) :
                /\ Admissible(cands[k], Ximg, Zimg)
                /\ \/ ~SolveRejected(cands[k], Ximg, Zimg, n)
                   \/ FirstEligible(cands, cands[k], Ximg, Zimg) # 0})

\* C23: when the linear solve gives no admissible Z partner for an
\* admissible X candidate and some enumerated Pauli within the weight bound
\* anticommutes with the candidate, commutes with every fixed frame vector
\* and is outside the span of the fixed vectors and the candidate, the
\* completion of that qubit stores the candidate with the first such Pauli.
C23_FallbackPartnerSelected ==
    [][(/\ syn_pc = "loop"
        /\ ValidPartialFrame(syn_in)
        /\ searched' # searched)
       => LET n == syn_in.num_qubits
              cands == EnumerationTable[n][syn_in.max_weight_search]
              k == FirstCompletable(cands, X_img, Z_img, n)
          IN (k # 0 /\ SolveRejected(cands[k], X_img, Z_img, n))
                => /\ X_img'[q_loop + 1] = cands[k]
                   /\ Z_img'[q_loop + 1]
                         = cands[FirstEligible(cands, cands[k], X_img, Z_img)]]_vars

\* ========================================= diagonalizing circuit properties
\* C24: immediately after the gates for index i have been emitted and
\* applied, before index i + 1 is processed, the tracked destabilizer i is
\* X on qubit i and identity on every other qubit, for every destabilizer i
\* that is not the identity.
C24_DestabilizerPurified ==
    (/\ fn_in.op = "build"
     /\ fn_args.i >= 1
     /\ Support(fn_in.destabilizers[fn_args.i]) # {})
        => fn_args.destabs[fn_args.i]
              = SingleQubitPauli(fn_in.num_qubits, fn_args.i - 1, 1)

\* The gates for the second generator have just been applied: its tracked
\* destabilizer was swapped from qubit 0 into place, turned from Y to X by
\* S_DAG, and a Y on qubit 2 was cleared by S_DAG, CX, S
C24_Witness ==
    /\ fn_in.op = "build"
    /\ fn_pc = "call"
    /\ fn_args.i = 2
    /\ \E g \in 1..(Len(fn_args.circuit) - 1) :
          /\ fn_args.circuit[g] = <<"SWAP", <<1, 0>>>>
          /\ fn_args.circuit[g + 1] = <<"S_DAG", <<1>>>>
    /\ fn_args.circuit[Len(fn_args.circuit)] = <<"S", <<2>>>>

\* ======================================= destabilizer discovery properties
\* C25: in every destabilizer list the discovery returns for stabilizers
\* S_0..S_{k-1}, D_i anticommutes with S_i, commutes with every S_j, j # i,
\* and commutes with every other D_j.
C25_DestabilizerPattern ==
    (can_pc \in {"circuit", "returned"} /\ Len(destab_stim) = Len(stab_stim)) =>
        \A i, j \in 1..Len(stab_stim) :
            /\ Anticommute(destab_stim[i], stab_stim[j]) <=> (i = j)
            /\ ~Anticommute(destab_stim[i], destab_stim[j])

\* Destabilizers were returned for two stabilizers, the second one a
\* two-qubit operator found after every single-qubit candidate failed
C25_Witness ==
    /\ can_pc = "circuit"
    /\ Len(stab_stim) = 2
    /\ Len(destab_stim) = 2
    /\ Cardinality(Support(destab_stim[2])) = 2
    /\ Cardinality(Support(destab_stim[1])) = 1

\* ============================================ logical operator properties
\* The operator a returned sparse string denotes on the code's n qubits
ReturnedPattern(spec) == PatternOf(spec, can_out.num_qubits)

\* C26: in every result of canonicalize_stabilizer_code the logical X and
\* logical Z lists have the same length; for every j logical X_j
\* anticommutes with logical Z_j, both commute with every stabilizer
\* generator and every destabilizer, and neither is, up to phase, a product
\* of stabilizer generators.
C26_LogicalPairs ==
    can_pc = "returned" =>
        LET lx == [j \in 1..Len(can_out.logical_x_sparse) |->
                      ReturnedPattern(can_out.logical_x_sparse[j])]
            lz == [j \in 1..Len(can_out.logical_z_sparse) |->
                      ReturnedPattern(can_out.logical_z_sparse[j])]
            Sg == [i \in 1..Len(can_out.stabilizers_sparse) |->
                      ReturnedPattern(can_out.stabilizers_sparse[i])]
            Dg == [i \in 1..Len(can_out.destabilizers_sparse) |->
                      ReturnedPattern(can_out.destabilizers_sparse[i])]
        IN /\ Len(lx) = Len(lz)
           /\ \A j \in 1..Len(lx) :
                 /\ Anticommute(lx[j], lz[j])
                 /\ \A i \in 1..Len(Sg) :
                       ~Anticommute(lx[j], Sg[i]) /\ ~Anticommute(lz[j], Sg[i])
                 /\ \A i \in 1..Len(Dg) :
                       ~Anticommute(lx[j], Dg[i]) /\ ~Anticommute(lz[j], Dg[i])
                 /\ \A T \in SUBSET (1..Len(Sg)) :
                       ~IsProductOf(Sg, T, lx[j]) /\ ~IsProductOf(Sg, T, lz[j])

\* A result with two logical pairs, one of them of weight two
C26_Witness ==
    /\ can_pc = "returned"
    /\ Len(can_out.logical_x_sparse) = 2
    /\ Len(can_out.logical_z_sparse) = 2
    /\ \E j \in 1..2 : Len(can_out.logical_z_sparse[j]) = 2

\* C27: for every accepted list of k <= n commuting, independent generators
\* (destabilizers found, a result returned) the result has n - k logical X
\* operators and n - k logical Z operators, n - k being its num_logical.
C27_LogicalCount ==
    (can_pc = "returned" /\ ValidStabilizers(can_in)) =>
        /\ can_out.num_logical = can_out.num_qubits - can_out.num_stabilizers
        /\ Len(can_out.logical_x_sparse) = can_out.num_logical
        /\ Len(can_out.logical_z_sparse) = can_out.num_logical

\* ============================================ frame independence properties
\* The operators of G are independent: no product of a non-empty subset of
\* them is, up to phase, the identity on w qubits
IndependentOperators(G, w) ==
    \A T \in SUBSET (1..Len(G)) : T # {} => ~IsProductOf(G, T, [q \in 1..w |-> 0])

\* Pattern p is, up to phase, a product of some of the operators of G
InSpanOfOperators(G, p) == \E T \in SUBSET (1..Len(G)) : IsProductOf(G, T, p)

\* C28: in frame completion for a validated partial frame every accepted
\* X-image is outside the span of the operators fixed before it and every
\* accepted Z-image is outside the span of those operators and its X-image;
\* the 2n operators of the completed frame are independent over GF(2), the
\* stacked 2n x 2n matrix is invertible, and the step that builds the
\* tableau returns: the inversion never fails with "Matrix not invertible".
C28_CompletedFrameIndependent ==
    [][(syn_pc = "loop" /\ ValidPartialFrame(syn_in))
       => LET n == syn_in.num_qubits
              fixed == SelectSeq(X_img \o Z_img, IsOperator)
          IN /\ X_img' # X_img
                => /\ ~InSpanOfOperators(fixed, X_img'[q_loop + 1])
                   /\ ~InSpanOfOperators(Append(fixed, X_img'[q_loop + 1]),
                                         Z_img'[q_loop + 1])
             /\ q_loop = n
                => /\ Len(fixed) = 2 * n
                   /\ IndependentOperators(fixed, n)
                   /\ GF2Inv(TableauMatrix(FrameTableau)).ok
                   /\ syn_pc' = "returned"]_vars

\* A returned inverse tableau of a frame on two qubits both of whose pairs
\* were found by the completion
C28_Witness ==
    /\ syn_pc = "returned"
    /\ ValidPartialFrame(syn_in)
    /\ syn_in.direction = "pairs_to_standard"
    /\ syn_in.num_qubits = 2
    /\ searched = 2
    /\ IndependentOperators(X_img \o Z_img, 2)

\* ============================================ gate conjugation properties
\* The operations on distinct valid qubits of an n-qubit register
GatesOn(n) ==
    {<<name, <<i>>>> : name \in {"H", "S", "S_DAG"}, i \in 0..(n - 1)}
    \cup {<<name, <<t[1], t[2]>>>> : name \in {"CX", "CZ", "SWAP"},
                  t \in {u \in (0..(n - 1)) \X (0..(n - 1)) : u[1] # u[2]}}

\* Every gate rule maps two Paulis to images that commute iff they do
GateRulesKeepCommutation ==
    \A g \in GatesOn(BuildQubits) : \A a, b \in PaulisOn(BuildQubits) :
        Anticommute(ApplyGate(a, g), ApplyGate(b, g)) <=> Anticommute(a, b)

\* The operators cur anticommute pairwise exactly as the inputs do
SamePattern(cur, inputs) ==
    \A a, b \in 1..Len(inputs) :
        a < b => (Anticommute(cur[a], cur[b]) <=> Anticommute(inputs[a], inputs[b]))

\* cur holds the images of the inputs under the first k - 1 operations of
\* circ: these and the images under every longer prefix keep the pattern of
\* the inputs, and the images under the whole of circ are `tracked`
RECURSIVE PrefixesKeepPattern(_, _, _, _, _)
PrefixesKeepPattern(cur, inputs, circ, k, tracked) ==
    /\ SamePattern(cur, inputs)
    /\ IF k > Len(circ) THEN cur = tracked
       ELSE PrefixesKeepPattern(
                SubSeq([a \in 1..Len(cur) |-> ApplyGate(cur[a], circ[k])], 1, Len(cur)),
                inputs, circ, k + 1, tracked)

\* C29: after any prefix of the gates emitted by the diagonalizing circuit
\* synthesis the tracked stabilizers and destabilizers keep the commutation
\* pattern of the inputs: two tracked operators anticommute iff the inputs
\* they come from do (so S_i still anticommutes with D_i and the other
\* pairs still commute when the inputs were so); the operators the builder
\* holds are the inputs conjugated by the whole circuit emitted so far; and
\* each of the six gate rules H, S, S_DAG, CX, CZ, SWAP, on distinct valid
\* qubits, maps two Paulis to images that commute iff the two commute.
C29_CommutationKept ==
    fn_in.op = "build" =>
        LET inputs == fn_in.stabilizers \o fn_in.destabilizers
        IN /\ GateRulesKeepCommutation
           /\ PrefixesKeepPattern(inputs, inputs, fn_args.circuit, 1,
                                  fn_args.stabs \o fn_args.destabs)

\* A returned circuit with a CX, a CZ and an S gate, built for two
\* stabilizers each anticommuting with its own destabilizer only
C29_Witness ==
    /\ fn_in.op = "build"
    /\ fn_pc = "returned"
    /\ Len(fn_in.stabilizers) = 2
    /\ \A i, j \in 1..2 :
          /\ Anticommute(fn_in.stabilizers[i], fn_in.destabilizers[j]) <=> i = j
          /\ ~Anticommute(fn_in.destabilizers[i], fn_in.destabilizers[j])
          /\ ~Anticommute(fn_in.stabilizers[i], fn_in.stabilizers[j])
    /\ \A name \in {"CX", "CZ", "S"} :
          \E g \in 1..Len(fn_out.circuit) : fn_out.circuit[g][1] = name

\* ================================================== CZ update properties
\* The claim's rule for one gate (q1, q2): Z on q2 is multiplied in when the
\* operator has X or Y on q1, Z on q1 when it has X or Y on q2
CzRule(p, q1, q2) ==
    [q \in 1..Len(p) |->
        IF q = q2 + 1 /\ HasX(p[q1 + 1]) THEN GainZ(p[q])
        ELSE IF q = q1 + 1 /\ HasX(p[q2 + 1]) THEN GainZ(p[q])
        ELSE p[q]]

\* The rule applied for the gates k, k + 1, ... in sequence order
RECURSIVE CzRuleFrom(_, _, _)
CzRuleFrom(p, gates, k) ==
    IF k > Len(gates) THEN p
    ELSE CzRuleFrom(CzRule(p, gates[k][1], gates[k][2]), gates, k + 1)

OpsOf(paulis) == [j \in 1..Len(paulis) |-> paulis[j].ops]

\* qcmain0.update_generators_under_cz follows the rule on every generator
ReferenceFollowsRule ==
    fn_in.op = "update_cz" =>
        OpsOf(UpdateGeneratorsUnderCZ(fn_in.generators, fn_in.cz_gates))
            = [j \in 1..Len(fn_in.generators) |->
                  CzRuleFrom(fn_in.generators[j].ops, fn_in.cz_gates, 1)]

\* C30: for every system and every sequence of CZ gates
\* qcmain1.update_stabilizers_after_cz returns, and returns the Pauli
\* patterns of qcmain0.update_generators_under_cz on the same generators and
\* gates, which are those of the rule applied gate by gate; the number of
\* stabilizers and their pairwise commutation are preserved, and an empty
\* gate list returns the stabilizers unchanged.
C30_CzUpdatesAgree ==
    fn_in.op = "update_cz" =>
        /\ fn_pc # "raised"
        /\ fn_pc = "returned" =>
              LET before == OpsOf(fn_in.generators)
                  after == OpsOf(fn_out.stabilizers)
              IN /\ after = OpsOf(UpdateGeneratorsUnderCZ(fn_in.generators, fn_in.cz_gates))
                 /\ after = [j \in 1..Len(before) |-> CzRuleFrom(before[j], fn_in.cz_gates, 1)]
                 /\ Len(after) = Len(before)
                 /\ \A a, b \in 1..Len(before) :
                       Anticommute(after[a], after[b]) <=> Anticommute(before[a], before[b])
                 /\ fn_in.cz_gates = <<>> => after = before

====
